---- MODULE Spec2Model ----
(***************************************************************************)
(* ReviewPilot (ai-code-reviewer): the client's run lifecycle               *)
(* (src/app/page.tsx), the provider request pipeline (src/lib/llm.ts) and   *)
(* the review / generate route handlers (src/app/api/*/route.ts).           *)
(*                                                                          *)
(* Three specifications share the module:                                   *)
(*   SpecClient  the browser session: threads, runs, the request in flight  *)
(*   SpecRetry   one provider operation inside the retry controller         *)
(*   SpecRoute   one POST /api/review or POST /api/generate request         *)
(*   SpecCall    one call of a function of src/lib on an argument           *)
(*                                                                          *)
(* Presentation state of the page (the error banner, copiedKey, the         *)
(* sidebar filter and search query, the form fields) is not modelled: a     *)
(* submit takes the validity of the form as its input.                      *)
(***************************************************************************)
EXTENDS Integers, Sequences, FiniteSets, TLC

VARIABLES
  \* ---- client session (page.tsx, Home) ----
  threads,            \* useState<ThreadSnapshot[]>
  activeThreadId,     \* useState<string>
  isSubmitting,       \* useState(false)
  runningRequestRef,  \* useRef<RunningRequestContext | null>
  inflight,           \* the postJson promises not yet settled
  nextRunNo,          \* createRunId(): the next fresh run id
  nextThreadNo,       \* createThreadId(): the next fresh thread id
  loadState,          \* the initial GET /api/threads: "pending" | "done"
  dbSyncReadyRef,     \* useRef(false)
  store,              \* what GET /api/threads returns (empty = load fails or no rows)
  \* ---- one provider operation (llm.ts, called from POST) ----
  op,                 \* "review" | "generate"
  rpc,                \* "idle" | "calling" | "sleeping" | "done"
  elapsed,            \* ms since the call or the pause began
  callerAborted,      \* request.signal.aborted
  callLog,            \* one entry per attempt of the operation
  providerCalls,      \* POSTs sent to the provider endpoint
  outcome,            \* what provider.review / provider.generate settled with
  response,           \* the response of the POST handler
  request,            \* the body of the POST request (SpecRoute)
  \* ---- one call of a function of the libraries (SpecCall) ----
  fnName,             \* the function called
  fnInput,            \* its argument
  fnOutput,           \* what it returned or threw; NotCalled before the call
  \* ---- the thread sync of the client (SpecSync) ----
  syncTimer,          \* the 300 ms timer of the sync effect is set
  puts,               \* the PUT /api/threads requests sent and not yet processed
  nextPutNo           \* the number of the next PUT

clientVars ==
  <<threads, activeThreadId, isSubmitting, runningRequestRef,
    inflight, nextRunNo, nextThreadNo, loadState, dbSyncReadyRef, store>>

retryVars ==
  <<op, rpc, elapsed, callerAborted, callLog, providerCalls, outcome>>

serverVars ==
  <<retryVars, response, request>>

syncVars ==
  <<syncTimer, puts, nextPutNo>>

callVars ==
  <<fnName, fnInput, fnOutput>>

vars ==
  <<clientVars, serverVars, callVars, syncVars>>

NULL ==
  "null"

\* no function has been called yet
NotCalled ==
  [called |-> FALSE]

CallIdle ==
  /\ fnName = "none"
  /\ fnInput = NotCalled
  /\ fnOutput = NotCalled

\* no sync timer is set and no PUT /api/threads is under way
SyncIdle ==
  /\ syncTimer = FALSE
  /\ puts = {}
  /\ nextPutNo = 1

\* ------------------------------------------------------------------------
\* Bounds of the model
\* ------------------------------------------------------------------------
MaxRuns ==
  2

MaxThreads ==
  1

\* ------------------------------------------------------------------------
\* Client session: src/src/app/page.tsx
\* ------------------------------------------------------------------------
INITIAL_THREAD_ID ==
  0

\* activeRunId: null
NoRunId ==
  0

ABORT_MESSAGE ==
  "request stopped by the user"

\* what postJson throws: extractErrorMessage(data) of a non-2xx response
FailureMessages ==
  {"LLM request failed"}

\* createThreadRun(mode)
createThreadRun(id, mode) ==
  [id |-> id, mode |-> mode, status |-> "running", result |-> NULL,
   errorMessage |-> NULL]

\* createDefaultThread(id)
createDefaultThread(id) ==
  [id |-> id, mode |-> "review", runs |-> <<>>, activeRunId |-> NoRunId]

\* A thread list a previous session left in the store: one thread whose newest
\* run ended and whose older run was stored while still running.
StoredThreads ==
  << [id |-> -1, mode |-> "generate",
      runs |-> << [id |-> -1, mode |-> "generate", status |-> "success",
                   result |-> "generate-result", errorMessage |-> NULL],
                  [id |-> -2, mode |-> "review", status |-> "running",
                   result |-> NULL, errorMessage |-> NULL] >>,
      activeRunId |-> -1] >>

\* const activeThread = threads.find(...) ?? threads[0] ?? null
activeThread ==
  IF \E i \in 1..Len(threads) : threads[i].id = activeThreadId
  THEN threads[CHOOSE i \in 1..Len(threads) : threads[i].id = activeThreadId]
  ELSE threads[1]

\* the threads of a list, and the runs of its threads: what an updater
\* (a function, here as in the source) can be applied to
AllThreads(ths) ==
  {ths[i] : i \in 1..Len(ths)}

AllRuns(ths) ==
  UNION {{ths[i].runs[k] : k \in 1..Len(ths[i].runs)} : i \in 1..Len(ths)}

\* updateThreadById(threadId, updater)
updateThreadById(ths, threadId, updater) ==
  [i \in 1..Len(ths) |->
     IF ths[i].id = threadId THEN updater[ths[i]] ELSE ths[i]]

\* updateThreadRun(threadId, runId, updater)
updateThreadRun(ths, threadId, runId, updater) ==
  LET upd == [thread \in AllThreads(ths) |->
        [thread EXCEPT
           !.runs = [k \in 1..Len(thread.runs) |->
                       IF thread.runs[k].id = runId
                       THEN updater[thread.runs[k]] ELSE thread.runs[k]],
           !.activeRunId = runId]]
  IN updateThreadById(ths, threadId, upd)

NoRunningRequest ==
  [controller |-> 0, threadId |-> 0, runId |-> 0]

\* A mutant of abortController: the controller is never aborted, so the
\* superseded request can still deliver its response.
abortControllerNoAbort(reqs, controller) ==
  reqs

\* running.controller.abort(): the fetch of that controller rejects with AbortError
abortController(reqs, controller) ==
  {IF q.controller = controller THEN [q EXCEPT !.aborted = TRUE] ELSE q : q \in reqs}

\* A mutant of abortedThreads: the run is cancelled without a message
abortedThreadsNoMessage(ths, running) ==
  IF running = NoRunningRequest THEN ths
  ELSE LET cancel == [run \in AllRuns(ths) |->
             IF run.status = "running"
             THEN [run EXCEPT !.status = "cancelled"]
             ELSE run]
       IN updateThreadRun(ths, running.threadId, running.runId, cancel)

\* A mutant of abortedThreads: the run of the aborted request is left as it is
abortedThreadsUnmarked(ths, running) ==
  ths

\* abortRunningRequest: the threads after it
abortedThreads(ths, running) ==
  IF running = NoRunningRequest THEN ths
  ELSE LET cancel == [run \in AllRuns(ths) |->
             IF run.status = "running"
             THEN [run EXCEPT !.status = "cancelled",
                              !.errorMessage = ABORT_MESSAGE]
             ELSE run]
       IN updateThreadRun(ths, running.threadId, running.runId, cancel)

\* abortRunningRequest: the requests after it
abortedRequests(reqs, running) ==
  IF running = NoRunningRequest THEN reqs
  ELSE abortController(reqs, running.controller)

\* handleReviewSubmit / handleGenerateSubmit up to the await of postJson
Submit(mode, valid) ==
  /\ Len(threads) > 0
  /\ nextRunNo <= MaxRuns
  /\ IF ~valid
     THEN UNCHANGED <<threads, isSubmitting, runningRequestRef, inflight,
                     nextRunNo>>
     ELSE LET currentThreadId == activeThread.id
              run == createThreadRun(nextRunNo, mode)
              current == abortedThreads(threads, runningRequestRef)
              addRun == [thread \in AllThreads(current) |->
                [thread EXCEPT !.mode = mode,
                               !.runs = <<run>> \o thread.runs,
                               !.activeRunId = run.id]]
          IN /\ threads' = updateThreadById(current, currentThreadId, addRun)
             /\ inflight' = abortedRequests(inflight, runningRequestRef) \cup
                   {[controller |-> nextRunNo, threadId |-> currentThreadId,
                     runId |-> run.id, mode |-> mode, aborted |-> FALSE]}
             /\ runningRequestRef' = [controller |-> nextRunNo,
                                      threadId |-> currentThreadId,
                                      runId |-> run.id]
             /\ isSubmitting' = TRUE
             /\ nextRunNo' = nextRunNo + 1
  /\ UNCHANGED <<activeThreadId, nextThreadNo, loadState, dbSyncReadyRef, store, serverVars, callVars, syncVars>>

handleReviewSubmit ==
  \E valid \in BOOLEAN : Submit("review", valid)

handleGenerateSubmit ==
  \E valid \in BOOLEAN : Submit("generate", valid)

\* A mutant of SubmitFinally: the context is cleared whichever request ended
SubmitFinallyUnguarded(q) ==
  /\ runningRequestRef' = NoRunningRequest
  /\ isSubmitting' = FALSE

\* the finally block of both submit handlers
SubmitFinally(q) ==
  IF runningRequestRef.controller = q.controller /\ runningRequestRef.runId = q.runId
  THEN /\ runningRequestRef' = NoRunningRequest
       /\ isSubmitting' = FALSE
  ELSE UNCHANGED <<runningRequestRef, isSubmitting>>

\* postJson resolved: the try block after the await
PostJsonResolved ==
  \E q \in inflight :
    /\ ~q.aborted
    /\ LET succeed == [thread \in AllThreads(threads) |->
             [thread EXCEPT
                !.mode = q.mode,
                !.runs = [k \in 1..Len(thread.runs) |->
                            IF thread.runs[k].id = q.runId
                            THEN [thread.runs[k] EXCEPT
                                    !.status = "success",
                                    !.result = IF q.mode = "review"
                                               THEN "review-result"
                                               ELSE "generate-result",
                                    !.errorMessage = NULL]
                            ELSE thread.runs[k]],
                !.activeRunId = q.runId]]
       IN threads' = updateThreadById(threads, q.threadId, succeed)
    /\ inflight' = inflight \ {q}
    /\ SubmitFinally(q)
    /\ UNCHANGED <<activeThreadId, nextRunNo, nextThreadNo,
                   loadState, dbSyncReadyRef, store, serverVars, callVars, syncVars>>

\* postJson rejected with an error that is not an AbortError: the catch block
PostJsonRejected ==
  \E q \in inflight, message \in FailureMessages :
    /\ ~q.aborted
    /\ LET fail == [run \in AllRuns(threads) |->
             [run EXCEPT !.status = "failed", !.errorMessage = message]]
       IN threads' = updateThreadRun(threads, q.threadId, q.runId, fail)
    /\ inflight' = inflight \ {q}
    /\ SubmitFinally(q)
    /\ UNCHANGED <<activeThreadId, nextRunNo, nextThreadNo, loadState,
                   dbSyncReadyRef, store, serverVars, callVars, syncVars>>

\* postJson rejected with AbortError: the catch block returns at once
PostJsonAborted ==
  \E q \in inflight :
    /\ q.aborted
    /\ inflight' = inflight \ {q}
    /\ SubmitFinally(q)
    /\ UNCHANGED <<threads, activeThreadId, nextRunNo,
                   nextThreadNo, loadState, dbSyncReadyRef, store, serverVars, callVars, syncVars>>

\* handleCancelRequest: abortRunningRequest(true)
handleCancelRequest ==
  /\ threads' = abortedThreads(threads, runningRequestRef)
  /\ inflight' = abortedRequests(inflight, runningRequestRef)
  /\ runningRequestRef' = NoRunningRequest
  /\ isSubmitting' = FALSE
  /\ UNCHANGED <<activeThreadId, nextRunNo, nextThreadNo, loadState,
                 dbSyncReadyRef, store, serverVars, callVars, syncVars>>

handleNewThread ==
  /\ nextThreadNo <= MaxThreads
  /\ threads' = <<createDefaultThread(nextThreadNo)>> \o
                  abortedThreads(threads, runningRequestRef)
  /\ inflight' = abortedRequests(inflight, runningRequestRef)
  /\ runningRequestRef' = NoRunningRequest
  /\ isSubmitting' = FALSE
  /\ activeThreadId' = nextThreadNo
  /\ nextThreadNo' = nextThreadNo + 1
  /\ UNCHANGED <<nextRunNo, loadState, dbSyncReadyRef, store, serverVars, callVars, syncVars>>

handleSelectThread ==
  \E i \in 1..Len(threads) :
    /\ threads[i].id # activeThreadId
    /\ threads' = abortedThreads(threads, runningRequestRef)
    /\ inflight' = abortedRequests(inflight, runningRequestRef)
    /\ runningRequestRef' = NoRunningRequest
    /\ isSubmitting' = FALSE
    /\ activeThreadId' = threads[i].id
    /\ UNCHANGED <<nextRunNo, nextThreadNo, loadState, dbSyncReadyRef, store, serverVars, callVars, syncVars>>

\* handleDeleteThread, the deletion confirmed
handleDeleteThread ==
  \E i \in 1..Len(threads) :
    LET threadId == threads[i].id
        remainingThreads == SelectSeq(threads, LAMBDA t : t.id # threadId)
    IN /\ IF activeThreadId = threadId
          THEN /\ inflight' = abortedRequests(inflight, runningRequestRef)
               /\ runningRequestRef' = NoRunningRequest
               /\ isSubmitting' = FALSE
          ELSE UNCHANGED <<inflight, runningRequestRef, isSubmitting>>
       /\ IF Len(remainingThreads) = 0
          THEN /\ nextThreadNo <= MaxThreads
               /\ threads' = <<createDefaultThread(nextThreadNo)>>
               /\ activeThreadId' = nextThreadNo
               /\ nextThreadNo' = nextThreadNo + 1
          ELSE /\ threads' = remainingThreads
               /\ nextThreadNo' = nextThreadNo
               /\ IF activeThreadId = threadId
                  THEN activeThreadId' = remainingThreads[1].id
                  ELSE UNCHANGED activeThreadId
       /\ UNCHANGED <<nextRunNo, loadState, dbSyncReadyRef, store, serverVars, callVars, syncVars>>

handleSelectRun ==
  \E k \in 1..Len(activeThread.runs) :
    LET select == [thread \in AllThreads(threads) |->
                     [thread EXCEPT !.activeRunId = activeThread.runs[k].id]]
    IN /\ activeThread.activeRunId # activeThread.runs[k].id
       /\ threads' = updateThreadById(threads, activeThread.id, select)
       /\ UNCHANGED <<activeThreadId, isSubmitting, runningRequestRef, inflight, nextRunNo, nextThreadNo,
                      loadState, dbSyncReadyRef, store, serverVars, callVars, syncVars>>

\* loadThreads: the response of GET /api/threads has arrived
loadThreads ==
  /\ loadState = "pending"
  /\ loadState' = "done"
  /\ dbSyncReadyRef' = TRUE
  /\ IF Len(store) > 0
     THEN /\ threads' = store
          /\ activeThreadId' = store[1].id
     ELSE UNCHANGED <<threads, activeThreadId>>
  /\ UNCHANGED <<isSubmitting, runningRequestRef, inflight,
                 nextRunNo, nextThreadNo, store, serverVars, callVars, syncVars>>

\* ------------------------------------------------------------------------
\* Provider pipeline: src/src/lib/llm.ts
\* ------------------------------------------------------------------------
RECURSIVE JoinStrings(_, _)
\* Array.prototype.join on strings
JoinStrings(strs, sep) ==
  IF Len(strs) = 0 THEN ""
  ELSE IF Len(strs) = 1 THEN strs[1]
  ELSE strs[1] \o sep \o JoinStrings(Tail(strs), sep)

RECURSIVE JoinTexts(_)
\* parts.map(...).join("\n") on texts; a text is a sequence of chunks, a chunk
\* being a run of whitespace or a run of other characters
JoinTexts(texts) ==
  IF Len(texts) = 0 THEN <<>>
  ELSE IF Len(texts) = 1 THEN texts[1]
  ELSE texts[1] \o <<"\n">> \o JoinTexts(Tail(texts))

WhitespaceChunks ==
  {"\n", " ", "\r\n"}

RECURSIVE TrimStart(_)
TrimStart(text) ==
  IF Len(text) > 0 /\ text[1] \in WhitespaceChunks
  THEN TrimStart(Tail(text)) ELSE text

RECURSIVE TrimEnd(_)
TrimEnd(text) ==
  IF Len(text) > 0 /\ text[Len(text)] \in WhitespaceChunks
  THEN TrimEnd(SubSeq(text, 1, Len(text) - 1)) ELSE text

\* String.prototype.trim
Trim(text) ==
  TrimEnd(TrimStart(text))

NoPayload ==
  [object |-> FALSE, error |-> NULL, candidates |-> <<>>]

\* A mutant of getTextFromGeminiResponse: the embedded error is looked at last
getTextFromGeminiResponseErrorLast(payload) ==
  IF ~payload.object
  THEN [ok |-> FALSE, message |-> "Gemini returned an invalid response payload"]
  ELSE IF Len(payload.candidates) = 0
  THEN [ok |-> FALSE, message |-> "Gemini returned no candidates"]
  ELSE IF Len(payload.candidates[1]) = 0
  THEN [ok |-> FALSE, message |-> "Gemini returned empty content"]
  ELSE LET text == Trim(JoinTexts(payload.candidates[1]))
       IN IF payload.error # NULL
          THEN [ok |-> FALSE, message |-> payload.error]
          ELSE IF Len(text) = 0
          THEN [ok |-> FALSE, message |-> "Gemini returned empty text output"]
          ELSE [ok |-> TRUE, text |-> text]

\* getTextFromGeminiResponse(payload): the text, or the message it throws
getTextFromGeminiResponse(payload) ==
  IF ~payload.object
  THEN [ok |-> FALSE, message |-> "Gemini returned an invalid response payload"]
  ELSE IF payload.error # NULL
  THEN [ok |-> FALSE, message |-> payload.error]
  ELSE IF Len(payload.candidates) = 0
  THEN [ok |-> FALSE, message |-> "Gemini returned no candidates"]
  ELSE IF Len(payload.candidates[1]) = 0
  THEN [ok |-> FALSE, message |-> "Gemini returned empty content"]
  ELSE LET text == Trim(JoinTexts(payload.candidates[1]))
       IN IF Len(text) = 0
          THEN [ok |-> FALSE, message |-> "Gemini returned empty text output"]
          ELSE [ok |-> TRUE, text |-> text]

\* The JSON documents the provider's text can hold, by the chunk that spells them
JsonDocuments ==
  [x \in {"{review}", "{review-line-0}", "{generate}", "{empty-object}", "7",
          "{review-extra}", "{generate-extra}", "{review-same-ids}"} |->
     CASE x = "{review}" ->
            [summary |-> "s",
             issues |-> << [id |-> "issue-1", severity |-> "medium",
                            title |-> "t", message |-> "m", line |-> 8] >>,
             refactoredCode |-> "r", suggestedTests |-> <<"t1">>]
       [] x = "{review-line-0}" ->
            [summary |-> "s",
             issues |-> << [id |-> "issue-1", severity |-> "urgent",
                            title |-> "t", message |-> "m", line |-> 0] >>,
             refactoredCode |-> "r", suggestedTests |-> <<>>]
       [] x = "{generate}" ->
            [summary |-> "ok", code |-> "c", notes |-> <<>>]
       [] x = "{empty-object}" ->
            [empty |-> TRUE]
       [] x = "7" ->
            [number |-> 7]
       [] x = "{review-extra}" ->
            [summary |-> "s",
             issues |-> << [id |-> "issue-1", severity |-> "low",
                            title |-> "t", message |-> "m", line |-> 1,
                            confidence |-> "sure"] >>,
             refactoredCode |-> "r", suggestedTests |-> <<>>,
             model |-> "gemini"]
       [] x = "{generate-extra}" ->
            [summary |-> "ok", code |-> "c", notes |-> <<"n">>,
             model |-> "gemini"]
       [] x = "{review-same-ids}" ->
            [summary |-> "s",
             issues |-> << [id |-> "issue-1", severity |-> "low",
                            title |-> "t", message |-> "m", line |-> 3],
                           [id |-> "issue-1", severity |-> "high",
                            title |-> "u", message |-> "n", line |-> 5] >>,
             refactoredCode |-> "r", suggestedTests |-> <<>>]]

\* JSON.parse(text): surrounding whitespace is allowed, anything else than one
\* document is a SyntaxError
jsonParse(text) ==
  LET body == Trim(text)
  IN IF Len(body) = 1 /\ body[1] \in DOMAIN JsonDocuments
     THEN [ok |-> TRUE, value |-> JsonDocuments[body[1]]]
     ELSE [ok |-> FALSE]

\* z.string() / z.array(...) on a field of an object
requiredIssues(value, fields) ==
  SelectSeq([i \in 1..Len(fields) |->
               IF fields[i] \in DOMAIN value THEN "" ELSE fields[i] \o ": Required"],
            LAMBDA m : m # "")

\* reviewIssueSchema on issues[k]
reviewIssueIssues(issue, k) ==
  LET path == "issues." \o ToString(k - 1) \o "."
  IN (IF issue.severity \in {"low", "medium", "high"} THEN <<>>
      ELSE <<path \o "severity: Invalid enum value">>) \o
     (IF issue.line > 0 THEN <<>>
      ELSE <<path \o "line: Number must be greater than 0">>)

RECURSIVE reviewIssuesIssues(_, _)
reviewIssuesIssues(issues, k) ==
  IF k > Len(issues) THEN <<>>
  ELSE reviewIssueIssues(issues[k], k) \o reviewIssuesIssues(issues, k + 1)

\* schema.safeParse(parsedJson).error.issues rendered as "<path>: <message>"
schemaIssues(operation, value) ==
  IF "number" \in DOMAIN value
  THEN <<"root: Expected object, received number">>
  ELSE IF operation = "review"
  THEN requiredIssues(value, <<"summary">>) \o
       (IF "issues" \in DOMAIN value THEN reviewIssuesIssues(value.issues, 1)
        ELSE <<"issues: Required">>) \o
       requiredIssues(value, <<"refactoredCode", "suggestedTests">>)
  ELSE requiredIssues(value, <<"summary", "code", "notes">>)

\* A mutant of schemaData: the parsed value is handed back as it was parsed
schemaDataUnstripped(operation, value) ==
  value

\* parsed.data: zod strips the keys the schema does not name, at every level
schemaData(operation, value) ==
  IF operation = "review"
  THEN [summary |-> value.summary,
        issues |-> [k \in 1..Len(value.issues) |->
                      [id |-> value.issues[k].id,
                       severity |-> value.issues[k].severity,
                       title |-> value.issues[k].title,
                       message |-> value.issues[k].message,
                       line |-> value.issues[k].line]],
        refactoredCode |-> value.refactoredCode,
        suggestedTests |-> value.suggestedTests]
  ELSE [summary |-> value.summary, code |-> value.code, notes |-> value.notes]

NoData ==
  [empty |-> TRUE]

Failure(kind, status, message) ==
  [ok |-> FALSE, kind |-> kind, status |-> status, message |-> message,
   data |-> NoData]

Success(data) ==
  [ok |-> TRUE, kind |-> "success", status |-> 200, message |-> NULL,
   data |-> data]

Pending ==
  [ok |-> FALSE, kind |-> "pending", status |-> 0, message |-> NULL,
   data |-> NoData]

\* geminiJsonRequest after the response arrived: !response.ok
httpFailure(reply) ==
  Failure("http", reply.status,
          IF reply.payload.error # NULL
          THEN "Gemini API error: " \o reply.payload.error
          ELSE "Gemini API error: HTTP " \o ToString(reply.status))

\* geminiJsonRequest, one attempt: what it returns or throws for a reply
geminiJsonRequest(operation, reply) ==
  IF reply.kind = "network"
  THEN Failure("network", 0, "fetch failed")
  ELSE IF ~(reply.status >= 200 /\ reply.status <= 299)
  THEN httpFailure(reply)
  ELSE LET extracted == getTextFromGeminiResponse(reply.payload)
       IN IF ~extracted.ok
          THEN Failure("envelope", reply.status, extracted.message)
          ELSE LET parsedJson == jsonParse(extracted.text)
               IN IF ~parsedJson.ok
                  THEN Failure("non-json", reply.status,
                               "Gemini returned non-JSON output")
                  ELSE LET issues == schemaIssues(operation, parsedJson.value)
                       IN IF Len(issues) > 0
                          THEN Failure("schema", reply.status,
                                 "Gemini output schema mismatch: " \o
                                   JoinStrings(issues, ", "))
                          ELSE Success(schemaData(operation, parsedJson.value))

TextPayload(parts) ==
  [object |-> TRUE, error |-> NULL, candidates |-> <<parts>>]

ErrorPayload(message) ==
  [object |-> TRUE, error |-> message, candidates |-> <<>>]

EmptyPayload ==
  [object |-> TRUE, error |-> NULL, candidates |-> <<>>]

\* What the provider endpoint can answer to one POST
ProviderReplies ==
  {[kind |-> "network", status |-> 0, payload |-> NoPayload]} \cup
  [kind : {"http"}, status : {400, 429, 500, 503},
   payload : {EmptyPayload, ErrorPayload("quota exceeded")}] \cup
  [kind : {"http"}, status : {200},
   payload : {TextPayload(<< <<"{review}">> >>),
              TextPayload(<< <<"\n">>, <<"{generate}", "\n">> >>),
              TextPayload(<< <<"{review-line-0}">> >>),
              TextPayload(<< <<"{review-same-ids}">> >>),
              TextPayload(<< <<"{empty-object}">> >>),
              TextPayload(<< <<"7">> >>),
              TextPayload(<< <<"Here", " ", "is", " ", "the", " ", "JSON">> >>),
              TextPayload(<< <<" ">>, <<"\n">> >>),
              ErrorPayload("model overloaded"),
              EmptyPayload}]

\* ---- the retry controller: fixed budget, fixed delay, timeout, cancellation
MAX_ATTEMPTS ==
  3

RETRY_DELAY_MS ==
  3000

LLM_TIMEOUT_MS ==
  300000

TIMEOUT_MESSAGE ==
  "Gemini request timed out"

CANCELLED_MESSAGE ==
  "Gemini request was cancelled"

\* A mutant of isRetryable: a timeout is taken for a terminal failure
isRetryableNoTimeout(failure) ==
  \/ failure.kind = "network"
  \/ failure.kind = "http" /\ (failure.status = 429 \/ failure.status >= 500)

\* A mutant of isRetryable: HTTP 429 is taken for a terminal client error
isRetryableOnly5xx(failure) ==
  \/ failure.kind \in {"timeout", "network"}
  \/ failure.kind = "http" /\ failure.status >= 500

\* A mutant of isRetryable: malformed model output is retried like a 5xx
isRetryableMalformedToo(failure) ==
  \/ failure.kind \in {"timeout", "network", "non-json", "schema"}
  \/ failure.kind = "http" /\ (failure.status = 429 \/ failure.status >= 500)

\* the failure classification of the controller
isRetryable(failure) ==
  \/ failure.kind \in {"timeout", "network"}
  \/ failure.kind = "http" /\ (failure.status = 429 \/ failure.status >= 500)

\* A mutant of attemptsRemain: the budget is one attempt short
attemptsRemainOneShort(attempts) ==
  attempts + 1 < MAX_ATTEMPTS

attemptsRemain(attempts) ==
  attempts < MAX_ATTEMPTS

\* A mutant of retryDelay: the delay grows with the attempt number
retryDelayLinearBackoff(attempts) ==
  RETRY_DELAY_MS * attempts

\* the pause after the attempt numbered `attempts`
retryDelay(attempts) ==
  RETRY_DELAY_MS

\* review/route.ts passes signal: request.signal; generate/route.ts passes none
signalPassed(operation) ==
  operation = "review"

\* A mutant of createErrorResponse: every error is answered as a bad gateway
createErrorResponseBadGateway(error, status, details) ==
  [status |-> 502, ok |-> FALSE, error |-> error, details |-> details,
   data |-> NoData]

\* createErrorResponse(error, status, details): NextResponse.json(payload, {status})
createErrorResponse(error, status, details) ==
  [status |-> status, ok |-> FALSE, error |-> error, details |-> details,
   data |-> NoData]

\* A mutant of llmFailureResponse: the underlying message is dropped
llmFailureResponseNoMessage(message) ==
  [status |-> 502, ok |-> FALSE, error |-> "LLM request failed",
   details |-> <<"Failed to call LLM API">>, data |-> NoData]

\* POST, the catch block: createErrorResponse("LLM request failed", 502, [message])
llmFailureResponse(message) ==
  createErrorResponse("LLM request failed", 502, <<message>>)

\* POST, the try block after the await: NextResponse.json(responsePayloadResult.data)
successResponse(data) ==
  [status |-> 200, ok |-> TRUE, error |-> NULL, details |-> <<>>, data |-> data]

NoResponse ==
  [status |-> 0, ok |-> FALSE, error |-> NULL, details |-> <<>>, data |-> NoData]

\* A mutant of raisedFailure: the first failure is reported, not the last
raisedFirstFailure(log) ==
  log[1].result

\* what the controller raises when it gives up
raisedFailure(log) ==
  log[Len(log)].result

LogEntry(pause, sent) ==
  [result |-> Pending, pauseBefore |-> pause, networkCall |-> sent,
   afterAbort |-> callerAborted]

\* the operation settles: provider.review / provider.generate returns or throws,
\* and POST answers
Settle(log) ==
  LET last == log[Len(log)].result
  IN /\ rpc' = "done"
     /\ callLog' = log
     /\ outcome' = IF last.ok THEN last ELSE raisedFailure(log)
     /\ response' = IF last.ok THEN successResponse(last.data)
                    ELSE llmFailureResponse(raisedFailure(log).message)

\* provider.review(...) / provider.generate(...): the first attempt starts
StartOperation ==
  /\ rpc = "idle"
  /\ rpc' = "calling"
  /\ elapsed' = 0
  /\ callLog' = <<LogEntry(0, TRUE)>>
  /\ providerCalls' = providerCalls + 1
  /\ UNCHANGED <<op, callerAborted, outcome, response, clientVars, request, callVars, syncVars>>

\* an attempt ended with `result`: return, pause or give up
AttemptEnds(result) ==
  LET log == [callLog EXCEPT ![Len(callLog)].result = result]
  IN IF ~result.ok /\ isRetryable(result) /\ attemptsRemain(Len(log))
     THEN /\ rpc' = "sleeping"
          /\ elapsed' = 0
          /\ callLog' = log
          /\ UNCHANGED <<outcome, response>>
     ELSE /\ Settle(log)
          /\ UNCHANGED elapsed

\* the provider answers the POST in flight, or the connection fails
ReplyArrives ==
  \E reply \in ProviderReplies :
    /\ rpc = "calling"
    /\ elapsed < LLM_TIMEOUT_MS
    /\ AttemptEnds(geminiJsonRequest(op, reply))
    /\ UNCHANGED <<op, callerAborted, providerCalls, clientVars, request, callVars, syncVars>>

\* the hard timeout aborts the POST in flight
TimeoutFires ==
  /\ rpc = "calling"
  /\ elapsed = LLM_TIMEOUT_MS
  /\ AttemptEnds(Failure("timeout", 0, TIMEOUT_MESSAGE))
  /\ UNCHANGED <<op, callerAborted, providerCalls, clientVars, request, callVars, syncVars>>

\* request.signal fires: the client went away
CallerCancels ==
  /\ rpc \in {"calling", "sleeping"}
  /\ ~callerAborted
  /\ callerAborted' = TRUE
  /\ IF rpc = "calling" /\ signalPassed(op)
     THEN AttemptEnds(Failure("cancelled", 0, CANCELLED_MESSAGE))
     ELSE UNCHANGED <<rpc, elapsed, callLog, outcome, response>>
  /\ UNCHANGED <<op, providerCalls, clientVars, request, callVars, syncVars>>

\* the pause is over: the next attempt starts; with the signal already fired
\* the transport fails at once and sends nothing
PauseEnds ==
  /\ rpc = "sleeping"
  /\ elapsed = retryDelay(Len(callLog))
  /\ IF callerAborted /\ signalPassed(op)
     THEN /\ Settle(Append(callLog,
                      [LogEntry(elapsed, FALSE) EXCEPT
                         !.result = Failure("cancelled", 0, CANCELLED_MESSAGE)]))
          /\ UNCHANGED <<elapsed, providerCalls>>
     ELSE /\ rpc' = "calling"
          /\ elapsed' = 0
          /\ callLog' = Append(callLog, LogEntry(elapsed, TRUE))
          /\ providerCalls' = providerCalls + 1
          /\ UNCHANGED <<outcome, response>>
  /\ UNCHANGED <<op, callerAborted, clientVars, request, callVars, syncVars>>

Deadline ==
  IF rpc = "calling" THEN LLM_TIMEOUT_MS ELSE retryDelay(Len(callLog))

\* time passes, up to the next instant of the grid or the pending deadline
TimePasses ==
  /\ rpc \in {"calling", "sleeping"}
  /\ elapsed < Deadline
  /\ LET later == {t \in {RETRY_DELAY_MS \div 3, RETRY_DELAY_MS,
                           LLM_TIMEOUT_MS \div 2, LLM_TIMEOUT_MS, Deadline} : t > elapsed /\ t <= Deadline}
     IN elapsed' = CHOOSE t \in later : \A u \in later : t <= u
  /\ UNCHANGED <<op, rpc, callerAborted, callLog, providerCalls, outcome,
                 response, clientVars, request, callVars, syncVars>>

\* ------------------------------------------------------------------------
\* Route handlers: src/src/app/api/review/route.ts and
\* src/src/app/api/generate/route.ts, with the request schemas of
\* src/lib/schemas.ts
\* ------------------------------------------------------------------------
REVIEW_MAX_FILES ==
  12

REVIEW_MAX_TOTAL_CHARS ==
  80000

GENERATE_LANGUAGES ==
  {"typescript", "javascript", "python", "java", "kotlin"}

GENERATE_STYLES ==
  {"clean", "fast", "explain"}

RESPONSE_LANGUAGES ==
  {"ko", "en"}

\* The code and the prompt of a request are strings given as sequences of
\* runs: n UTF-16 units of the class c, where c is "x" (neither whitespace nor
\* a line break), " ", "\r", "\n" or "\r\n" (one line break per run).
Run(c, n) ==
  [c |-> c, n |-> n]

X(n) ==
  Run("x", n)

SP ==
  Run(" ", 1)

LF ==
  Run("\n", 1)

CRLF ==
  Run("\r\n", 2)

RECURSIVE stringLength(_)
\* String.prototype.length
stringLength(s) ==
  IF Len(s) = 0 THEN 0 ELSE s[1].n + stringLength(Tail(s))

isWhitespace(run) ==
  run.c \in {" ", "\r", "\n", "\r\n"}

RECURSIVE stringTrimStart(_)
stringTrimStart(s) ==
  IF Len(s) > 0 /\ isWhitespace(s[1]) THEN stringTrimStart(Tail(s)) ELSE s

RECURSIVE stringTrimEnd(_)
stringTrimEnd(s) ==
  IF Len(s) > 0 /\ isWhitespace(s[Len(s)])
  THEN stringTrimEnd(SubSeq(s, 1, Len(s) - 1)) ELSE s

\* A mutant of stringTrim: the schema does not trim
stringTrimNothing(s) ==
  s

\* z.string().trim(): the parsed value is the trimmed string
stringTrim(s) ==
  stringTrimEnd(stringTrimStart(s))

\* code.replace(/\r\n/g, "\n")
replaceCrlf(s) ==
  [i \in 1..Len(s) |-> IF s[i].c = "\r\n" THEN LF ELSE s[i]]

RECURSIVE split(_)
\* normalized.split("\n"): a "\r\n" left in the string is cut after its "\r"
split(s) ==
  LET breaks == {i \in 1..Len(s) : s[i].c \in {"\n", "\r\n"}}
  IN IF breaks = {} THEN <<s>>
     ELSE LET i == CHOOSE b \in breaks : \A o \in breaks : b <= o
              before == SubSeq(s, 1, i - 1) \o
                        (IF s[i].c = "\r\n" THEN <<Run("\r", 1)>> ELSE <<>>)
          IN <<before>> \o split(SubSeq(s, i + 1, Len(s)))

\* A mutant of safeLineCount: the line breaks are counted, not the lines
safeLineCountLineBreaks(code) ==
  LET normalized == replaceCrlf(code)
  IN IF stringLength(normalized) > 0 THEN Len(split(normalized)) - 1 ELSE 0

safeLineCount(code) ==
  LET normalized == replaceCrlf(code)
  IN IF stringLength(normalized) > 0 THEN Len(split(normalized)) ELSE 0

\* An optional key of a JSON body
Some(v) ==
  [present |-> TRUE, value |-> v]

None ==
  [present |-> FALSE, value |-> <<>>]

\* A name (filename, language, style, responseLanguage) is a text: a sequence
\* of chunks, as above; the extension of a filename is its last chunk
toLowerCase(text) ==
  [i \in 1..Len(text) |->
     CASE text[i] = ".PY" -> ".py"
       [] text[i] = "Main" -> "main"
       [] text[i] = "Kotlin" -> "kotlin"
       [] OTHER -> text[i]]

textString(text) ==
  JoinStrings(text, "")

extensionForLanguage(language) ==
  LET normalized == textString(toLowerCase(Trim(language)))
  IN CASE normalized \in {"typescript", "ts"} -> "ts"
       [] normalized \in {"javascript", "js"} -> "js"
       [] normalized \in {"python", "py"} -> "py"
       [] normalized = "java" -> "java"
       [] normalized \in {"kotlin", "kt"} -> "kt"
       [] OTHER -> NULL

inferLanguageFromFilename(filename) ==
  LET normalized == toLowerCase(Trim(filename))
      ending == IF Len(normalized) = 0 THEN "" ELSE normalized[Len(normalized)]
  IN CASE ending \in {".ts", ".tsx"} -> "typescript"
       [] ending \in {".js", ".jsx"} -> "javascript"
       [] ending = ".py" -> "python"
       [] ending = ".java" -> "java"
       [] ending = ".kt" -> "kotlin"
       [] OTHER -> NULL

normalizeReviewFile(filename, code, preferredLanguage) ==
  LET normalizedFilename ==
        IF Len(Trim(filename)) > 0 THEN Trim(filename) ELSE <<"snippet", ".txt">>
      normalizedLanguage ==
        IF preferredLanguage.present /\ Len(Trim(preferredLanguage.value)) > 0
        THEN textString(Trim(preferredLanguage.value))
        ELSE IF inferLanguageFromFilename(normalizedFilename) # NULL
        THEN inferLanguageFromFilename(normalizedFilename)
        ELSE "plaintext"
  IN [filename |-> textString(normalizedFilename),
      language |-> normalizedLanguage,
      code |-> code,
      lineCount |-> safeLineCount(code)]

\* A mutant of zodIssuesToStrings: the empty path is rendered as in llm.ts
zodIssuesToStringsRoot(issues) ==
  [i \in 1..Len(issues) |->
     (IF Len(issues[i].path) > 0 THEN JoinStrings(issues[i].path, ".") ELSE "root")
       \o ": " \o issues[i].message]

\* zodIssuesToStrings: "<path>: <message>", "body" for the empty path (the
\* backquotes and double quotes inside the source's messages are written ')
zodIssuesToStrings(issues) ==
  [i \in 1..Len(issues) |->
     (IF Len(issues[i].path) > 0 THEN JoinStrings(issues[i].path, ".") ELSE "body")
       \o ": " \o issues[i].message]

Issue(path, message) ==
  [path |-> path, message |-> message]

\* z.string().trim().min(1, message).optional() on a key holding a string
minLengthIssues(field, length, path, message) ==
  IF field.present /\ length = 0 THEN <<Issue(path, message)>> ELSE <<>>

\* z.enum(options).optional()
enumIssues(field, options, path) ==
  IF field.present /\ textString(field.value) \notin options
  THEN <<Issue(path, "Invalid enum value")>> ELSE <<>>

\* reviewInputFileSchema on files[k]
reviewInputFileIssues(file, k) ==
  LET at == ToString(k - 1)
  IN minLengthIssues(Some(file.filename), Len(Trim(file.filename)),
                     <<"files", at, "filename">>,
                     "'files[].filename' must not be empty") \o
     minLengthIssues(Some(file.code), stringLength(stringTrim(file.code)),
                     <<"files", at, "code">>,
                     "'files[].code' must not be empty") \o
     minLengthIssues(file.language, Len(Trim(file.language.value)),
                     <<"files", at, "language">>,
                     "'files[].language' must not be empty")

RECURSIVE reviewFilesIssues(_, _)
reviewFilesIssues(files, k) ==
  IF k > Len(files) THEN <<>>
  ELSE reviewInputFileIssues(files[k], k) \o reviewFilesIssues(files, k + 1)

\* reviewRequestSchema.safeParse(rawBody).data: every string trimmed
reviewRequestData(body) ==
  [code |-> IF body.code.present THEN Some(stringTrim(body.code.value)) ELSE None,
   filename |-> IF body.filename.present
                THEN Some(Trim(body.filename.value)) ELSE None,
   language |-> IF body.language.present
                THEN Some(Trim(body.language.value)) ELSE None,
   files |-> IF body.files.present
             THEN Some([k \in 1..Len(body.files.value) |->
                          LET file == body.files.value[k]
                          IN [filename |-> Trim(file.filename),
                              code |-> stringTrim(file.code),
                              language |-> IF file.language.present
                                           THEN Some(Trim(file.language.value))
                                           ELSE None]])
             ELSE None,
   responseLanguage |-> body.responseLanguage]

\* reviewRequestSchema.safeParse(rawBody).error.issues
reviewRequestIssues(body) ==
  LET data == reviewRequestData(body)
      hasInlineCode == data.code.present /\ stringLength(data.code.value) > 0
      hasFiles == data.files.present /\ Len(data.files.value) > 0
  IN IF ~body.object
     THEN <<Issue(<<>>, "Expected object, received number")>>
     ELSE
     minLengthIssues(body.code, stringLength(data.code.value),
                     <<"code">>, "'code' is required") \o
     minLengthIssues(body.filename, Len(data.filename.value),
                     <<"filename">>, "'filename' must not be empty") \o
     minLengthIssues(body.language, Len(data.language.value),
                     <<"language">>, "'language' must not be empty") \o
     minLengthIssues(body.files, Len(body.files.value),
                     <<"files">>, "'files' must have at least one item") \o
     reviewFilesIssues(body.files.value, 1) \o
     (IF ~hasInlineCode /\ ~hasFiles
      THEN <<Issue(<<"code">>, "'code' or 'files' is required")>> ELSE <<>>)

\* A mutant of generateRequestData: the prompt is kept as it was sent
generateRequestDataUntrimmed(body) ==
  [prompt |-> body.prompt.value,
   language |-> body.language,
   style |-> body.style,
   responseLanguage |-> body.responseLanguage]

\* generateRequestSchema.safeParse(rawBody).data
generateRequestData(body) ==
  [prompt |-> stringTrim(body.prompt.value),
   language |-> body.language,
   style |-> body.style,
   responseLanguage |-> body.responseLanguage]

\* generateRequestSchema.safeParse(rawBody).error.issues
generateRequestIssues(body) ==
  IF ~body.object
  THEN <<Issue(<<>>, "Expected object, received number")>>
  ELSE
  (IF ~body.prompt.present THEN <<Issue(<<"prompt">>, "Required")>>
   ELSE minLengthIssues(body.prompt, stringLength(stringTrim(body.prompt.value)),
                        <<"prompt">>, "'prompt' is required")) \o
  enumIssues(body.language, GENERATE_LANGUAGES, <<"language">>) \o
  enumIssues(body.style, GENERATE_STYLES, <<"style">>) \o
  enumIssues(body.responseLanguage, RESPONSE_LANGUAGES, <<"responseLanguage">>)

\* value ?? fallback on an optional enum key
orDefault(field, fallback) ==
  IF field.present THEN textString(field.value) ELSE fallback

\* uploadedFiles: every file of the body normalised
reviewUploadedFiles(data) ==
  IF data.files.present
  THEN [k \in 1..Len(data.files.value) |->
          normalizeReviewFile(data.files.value[k].filename,
                              data.files.value[k].code,
                              data.files.value[k].language)]
  ELSE <<>>

\* inlineFile: the code of the body as one more file, or null
reviewInlineFile(data) ==
  LET inlineCode == data.code
      requestedLanguage ==
        IF data.language.present THEN Some(Trim(data.language.value)) ELSE None
      requestedFilename ==
        IF data.filename.present THEN Trim(data.filename.value) ELSE <<>>
      fallbackExtension ==
        IF Len(requestedLanguage.value) > 0
        THEN extensionForLanguage(requestedLanguage.value) ELSE NULL
      filename ==
        IF Len(requestedFilename) > 0 THEN requestedFilename
        ELSE IF fallbackExtension # NULL
        THEN <<"snippet", "." \o fallbackExtension>>
        ELSE <<"snippet", ".txt">>
  IN IF inlineCode.present /\ stringLength(inlineCode.value) > 0
     THEN Some(normalizeReviewFile(filename, inlineCode.value, requestedLanguage))
     ELSE None

\* allFiles = inlineFile ? [...uploadedFiles, inlineFile] : uploadedFiles
reviewAllFiles(data) ==
  IF reviewInlineFile(data).present
  THEN reviewUploadedFiles(data) \o <<reviewInlineFile(data).value>>
  ELSE reviewUploadedFiles(data)

\* A mutant of reviewPrimaryFile: the first of all files is the primary one
reviewPrimaryFileFirst(data) ==
  reviewAllFiles(data)[1]

\* primaryFile = inlineFile ?? allFiles[0]
reviewPrimaryFile(data) ==
  IF reviewInlineFile(data).present THEN reviewInlineFile(data).value
  ELSE reviewAllFiles(data)[1]

\* A mutant of tooManyFiles: the limit itself is already too many
tooManyFilesInclusive(allFiles) ==
  Len(allFiles) >= REVIEW_MAX_FILES

tooManyFiles(allFiles) ==
  Len(allFiles) > REVIEW_MAX_FILES

RECURSIVE totalChars(_)
\* allFiles.reduce((sum, file) => sum + file.code.length, 0)
totalChars(allFiles) ==
  IF Len(allFiles) = 0 THEN 0
  ELSE stringLength(allFiles[1].code) + totalChars(Tail(allFiles))

RECURSIVE totalLineCount(_)
\* allFiles.reduce((sum, file) => sum + file.lineCount, 0)
totalLineCount(allFiles) ==
  IF Len(allFiles) = 0 THEN 0
  ELSE allFiles[1].lineCount + totalLineCount(Tail(allFiles))

\* POST of the review route up to the try block: the 400 response, or NoResponse
reviewRequestRejection(body) ==
  IF ~body.json
  THEN createErrorResponse("Invalid JSON body", 400, <<>>)
  ELSE IF Len(reviewRequestIssues(body)) > 0
  THEN createErrorResponse("Invalid request body", 400,
                           zodIssuesToStrings(reviewRequestIssues(body)))
  ELSE LET allFiles == reviewAllFiles(reviewRequestData(body))
       IN IF Len(allFiles) = 0
          THEN createErrorResponse("Invalid request body", 400,
                                   <<"'code' or 'files' is required">>)
          ELSE IF tooManyFiles(allFiles)
          THEN createErrorResponse("Invalid request body", 400,
                 <<"Too many files. Maximum is " \o ToString(REVIEW_MAX_FILES)
                     \o ".">>)
          ELSE IF totalChars(allFiles) > REVIEW_MAX_TOTAL_CHARS
          THEN createErrorResponse("Invalid request body", 400,
                 <<"Total code size is too large. Maximum is " \o
                     ToString(REVIEW_MAX_TOTAL_CHARS) \o " characters.">>)
          ELSE NoResponse

\* POST of the generate route up to the try block
generateRequestRejection(body) ==
  IF ~body.json
  THEN createErrorResponse("Invalid JSON body", 400, <<>>)
  ELSE IF Len(generateRequestIssues(body)) > 0
  THEN createErrorResponse("Invalid request body", 400,
                           zodIssuesToStrings(generateRequestIssues(body)))
  ELSE NoResponse

\* the payload of the review response before reviewResponseSchema.safeParse
reviewResponsePayload(body, parsed) ==
  LET data == reviewRequestData(body)
      allFiles == reviewAllFiles(data)
      primaryFile == reviewPrimaryFile(data)
  IN [mode |-> "review",
      input |-> [filename |-> primaryFile.filename,
                 language |-> primaryFile.language,
                 responseLanguage |-> orDefault(data.responseLanguage, "ko"),
                 lineCount |-> primaryFile.lineCount,
                 fileCount |-> Len(allFiles),
                 totalLineCount |-> totalLineCount(allFiles)],
      summary |-> parsed.summary,
      issues |-> parsed.issues,
      refactoredCode |-> parsed.refactoredCode,
      suggestedTests |-> parsed.suggestedTests]

\* the payload of the generate response before generateResponseSchema.safeParse
generateResponsePayload(body, parsed) ==
  LET data == generateRequestData(body)
  IN [mode |-> "generate",
      input |-> [language |-> orDefault(data.language, "typescript"),
                 style |-> orDefault(data.style, "clean"),
                 responseLanguage |-> orDefault(data.responseLanguage, "ko"),
                 promptLength |-> stringLength(data.prompt)],
      summary |-> parsed.summary,
      code |-> parsed.code,
      notes |-> parsed.notes]

\* reviewResponseSchema / generateResponseSchema on the payload: the input block
responsePayloadIssues(payload) ==
  IF payload.mode = "review"
  THEN (IF payload.input.lineCount >= 0 THEN <<>>
        ELSE <<Issue(<<"input", "lineCount">>, "Number must be greater than or equal to 0")>>) \o
       (IF payload.input.fileCount > 0 THEN <<>>
        ELSE <<Issue(<<"input", "fileCount">>, "Number must be greater than 0")>>) \o
       (IF payload.input.totalLineCount >= 0 THEN <<>>
        ELSE <<Issue(<<"input", "totalLineCount">>, "Number must be greater than or equal to 0")>>)
  ELSE IF payload.input.promptLength >= 0 THEN <<>>
       ELSE <<Issue(<<"input", "promptLength">>, "Number must be greater than or equal to 0")>>

\* getLlmProvider(): readLlmProvider, then createGeminiProvider / getGeminiConfig
getLlmProvider(env) ==
  IF env.LLM_PROVIDER \notin {"", "gemini"}
  THEN [ok |-> FALSE,
        message |-> "Unsupported LLM_PROVIDER: " \o env.LLM_PROVIDER \o
                    ". Supported value is 'gemini'."]
  ELSE IF env.GEMINI_API_KEY = ""
  THEN [ok |-> FALSE, message |-> "GEMINI_API_KEY is not configured"]
  ELSE [ok |-> TRUE, message |-> NULL]

\* POST from its first line to the await of the provider call
postReceived(rejection) ==
  /\ rpc = "idle"
  /\ IF rejection # NoResponse
     THEN /\ rpc' = "done"
          /\ response' = rejection
          /\ UNCHANGED <<providerCalls, outcome>>
     ELSE \E env \in [LLM_PROVIDER : {"", "gemini", "openai"},
                       GEMINI_API_KEY : {"", "key"}] :
            LET provider == getLlmProvider(env)
            IN IF ~provider.ok
               THEN /\ rpc' = "done"
                    /\ outcome' = Failure("config", 0, provider.message)
                    /\ response' = llmFailureResponse(provider.message)
                    /\ UNCHANGED providerCalls
               ELSE /\ rpc' = "calling"
                    /\ providerCalls' = providerCalls + 1
                    /\ UNCHANGED <<outcome, response>>
  /\ UNCHANGED <<op, request, elapsed, callerAborted, callLog, clientVars,
                 callVars, syncVars>>

\* POST of /api/review, up to the await
reviewPOST ==
  /\ op = "review"
  /\ postReceived(reviewRequestRejection(request))

\* POST of /api/generate, up to the await
generatePOST ==
  /\ op = "generate"
  /\ postReceived(generateRequestRejection(request))

\* what the provider call can settle with, by the provider's last reply
RouteReplies ==
  {reply \in ProviderReplies :
     \/ reply.kind = "network"
     \/ reply.status = 503 /\ reply.payload # EmptyPayload
     \/ reply.status = 400 /\ reply.payload = EmptyPayload
     \/ reply.status = 200 /\ reply.payload.error = NULL
          /\ Len(reply.payload.candidates) > 0}

\* POST after the await: the response payload is checked and sent, or the
\* catch block answers
postSettled(result, payload) ==
  /\ rpc = "calling"
  /\ rpc' = "done"
  /\ outcome' = result
  /\ response' =
       IF ~result.ok THEN llmFailureResponse(result.message)
       ELSE IF Len(responsePayloadIssues(payload)) > 0
       THEN createErrorResponse("LLM output validation failed", 502,
              zodIssuesToStrings(responsePayloadIssues(payload)))
       ELSE successResponse(payload)
  /\ UNCHANGED <<op, request, elapsed, callerAborted, callLog,
                 providerCalls, clientVars, callVars, syncVars>>

\* POST of /api/review, from the await on
reviewPOSTSettled ==
  \E reply \in RouteReplies :
    LET result == geminiJsonRequest(op, reply)
    IN /\ op = "review"
       /\ postSettled(result,
                      IF result.ok THEN reviewResponsePayload(request, result.data)
                      ELSE NoData)

\* POST of /api/generate, from the await on
generatePOSTSettled ==
  \E reply \in RouteReplies :
    LET result == geminiJsonRequest(op, reply)
    IN /\ op = "generate"
       /\ postSettled(result,
                      IF result.ok THEN generateResponsePayload(request, result.data)
                      ELSE NoData)

\* ---- the requests of the model
MaxLeadFiles ==
  1

MaxFillerFiles ==
  12

NoRequest ==
  [json |-> FALSE, object |-> FALSE, prompt |-> None, code |-> None, filename |-> None,
   language |-> None, style |-> None, responseLanguage |-> None,
   files |-> None]

ReviewFile(filename, code, language) ==
  [filename |-> filename, code |-> code, language |-> language]

\* the uploaded files that vary
LeadFiles ==
  {ReviewFile(<<"a", ".ts">>, code, None) :
     code \in {<<X(1), LF, X(1)>>,
               <<SP, X(2), CRLF, X(1), LF>>,
               <<SP, LF>>,
               <<X(REVIEW_MAX_TOTAL_CHARS - 13), LF, X(1)>>,
               <<X(REVIEW_MAX_TOTAL_CHARS - 12), LF, X(1)>>,
               <<LF, X(REVIEW_MAX_TOTAL_CHARS - 13), LF, X(1), SP>>,
               <<X(REVIEW_MAX_TOTAL_CHARS)>>,
               <<X(REVIEW_MAX_TOTAL_CHARS + 1)>>}} \cup
  {ReviewFile(<<" ">>, <<X(1)>>, None),
   ReviewFile(<<"Main", ".PY", " ">>, <<X(3)>>, Some(<<" ">>)),
   ReviewFile(<<"notes", ".md">>, <<X(1), LF, LF, X(1)>>, Some(<<"Kotlin">>))}

RECURSIVE Repeat(_, _)
Repeat(x, n) ==
  IF n = 0 THEN <<>> ELSE <<x>> \o Repeat(x, n - 1)

\* a body that is JSON but not an object: a number
NumberRequest ==
  [NoRequest EXCEPT !.json = TRUE]

ReviewRequests ==
  {NoRequest, NumberRequest} \cup
  {[json |-> TRUE, object |-> TRUE, prompt |-> None, code |-> code, filename |-> filename,
    language |-> language, style |-> None,
    responseLanguage |-> responseLanguage, files |-> files] :
     code \in {None, Some(<<>>), Some(<<SP, LF>>), Some(<<X(1)>>),
               Some(<<LF, X(2), CRLF, X(1), LF>>)},
     filename \in {None, Some(<<"lib", ".py">>)},
     language \in {None, Some(<<"Kotlin">>)},
     responseLanguage \in {None, Some(<<"en">>)},
     files \in {None} \cup
               {Some(lead \o Repeat(ReviewFile(<<"f", ".js">>, <<X(1)>>, None), n)) :
                  lead \in UNION {[1..k -> LeadFiles] : k \in 0..MaxLeadFiles},
                  n \in 0..MaxFillerFiles}}

GenerateRequests ==
  {NoRequest, NumberRequest} \cup
  {[json |-> TRUE, object |-> TRUE, prompt |-> prompt, code |-> None, filename |-> None,
    language |-> language, style |-> style,
    responseLanguage |-> responseLanguage, files |-> None] :
     prompt \in {None, Some(<<>>), Some(<<SP>>),
                 Some(<<X(7), SP, X(1), SP, X(6)>>),
                 Some(<<SP, X(3), LF>>)},
     language \in {None, Some(<<"python">>), Some(<<"ruby">>)},
     style \in {None, Some(<<"fast">>), Some(<<"clean">>)},
     responseLanguage \in {None, Some(<<"en">>)}}

ServerIdle(operation) ==
  /\ op = operation
  /\ rpc = "idle"
  /\ elapsed = 0
  /\ callerAborted = FALSE
  /\ callLog = <<>>
  /\ providerCalls = 0
  /\ outcome = Pending
  /\ response = NoResponse
  /\ request = NoRequest

ClientIdle ==
  /\ threads = <<createDefaultThread(INITIAL_THREAD_ID)>>
  /\ activeThreadId = INITIAL_THREAD_ID
  /\ isSubmitting = FALSE
  /\ runningRequestRef = NoRunningRequest
  /\ inflight = {}
  /\ nextRunNo = 1
  /\ nextThreadNo = 1
  /\ loadState = "pending"
  /\ dbSyncReadyRef = FALSE
  /\ store = <<>>

InitRetry ==
  /\ ClientIdle
  /\ CallIdle
  /\ SyncIdle
  /\ \E operation \in {"review", "generate"} : ServerIdle(operation)

NextRetry ==
  \/ StartOperation
  \/ ReplyArrives
  \/ TimeoutFires
  \/ CallerCancels
  \/ PauseEnds
  \/ TimePasses

SpecRetry ==
  InitRetry /\ [][NextRetry]_vars

\* The controller with its timers: time advances, and the hard timeout and
\* the retry pause fire when they are due. Nothing obliges the provider to
\* answer or the caller to cancel.
SpecRetryFair ==
  /\ SpecRetry
  /\ WF_vars(TimePasses)
  /\ WF_vars(TimeoutFires)
  /\ WF_vars(PauseEnds)

InitRoute ==
  /\ ClientIdle
  /\ CallIdle
  /\ SyncIdle
  /\ rpc = "idle"
  /\ elapsed = 0
  /\ callerAborted = FALSE
  /\ callLog = <<>>
  /\ providerCalls = 0
  /\ outcome = Pending
  /\ response = NoResponse
  /\ \/ op = "review" /\ request \in ReviewRequests
     \/ op = "generate" /\ request \in GenerateRequests

NextRoute ==
  \/ reviewPOST
  \/ generatePOST
  \/ reviewPOSTSettled
  \/ generatePOSTSettled

SpecRoute ==
  InitRoute /\ [][NextRoute]_vars

InitClient ==
  /\ threads = <<createDefaultThread(INITIAL_THREAD_ID)>>
  /\ activeThreadId = INITIAL_THREAD_ID
  /\ isSubmitting = FALSE
  /\ runningRequestRef = NoRunningRequest
  /\ inflight = {}
  /\ nextRunNo = 1
  /\ nextThreadNo = 1
  /\ loadState = "pending"
  /\ dbSyncReadyRef = FALSE
  /\ store \in {<<>>, StoredThreads}
  /\ ServerIdle("review")
  /\ CallIdle
  /\ SyncIdle

NextClient ==
  \/ handleReviewSubmit
  \/ handleGenerateSubmit
  \/ PostJsonResolved
  \/ PostJsonRejected
  \/ PostJsonAborted
  \/ handleCancelRequest
  \/ handleNewThread
  \/ handleSelectThread
  \/ handleDeleteThread
  \/ handleSelectRun
  \/ loadThreads

SpecClient ==
  InitClient /\ [][NextClient]_vars

\* The client with its scheduling: the fetch of postJson settles (it resolves,
\* rejects, or rejects with AbortError once its controller is aborted), the
\* continuation of the handler then runs, and GET /api/threads is answered.
SpecClientFair ==
  /\ SpecClient
  /\ WF_vars(PostJsonResolved \/ PostJsonRejected)
  /\ WF_vars(PostJsonAborted)
  /\ WF_vars(loadThreads)

\* ------------------------------------------------------------------------
\* Calls of the functions of src/lib, one argument at a time
\* ------------------------------------------------------------------------
MaxParts ==
  2

\* the bodies a provider response can hold: no object, or an object with or
\* without an embedded error and with no candidate, one, or a second one after
\* it; a part whose text is not a string counts as ""
Payloads ==
  LET PartTexts ==
        {<<>>, <<" ">>, <<"{review}">>, <<"\n", "{generate}", "\n">>,
         <<"Here", " ", "is">>, <<"{review-line-0}">>, <<"{empty-object}">>,
         <<"7">>, <<"{review-extra}">>, <<"{generate-extra}">>}
      PartLists == UNION {[1..n -> PartTexts] : n \in 0..MaxParts}
  IN {NoPayload} \cup
     [object : {TRUE}, error : {NULL, "model overloaded"},
      candidates : {<<>>} \cup {<<parts>> : parts \in PartLists} \cup
                   {<<parts, << <<"{review}">> >> >> : parts \in PartLists}]

\* a function of the library is called on the argument and returns or throws
Call(name, value) ==
  /\ fnName = name
  /\ fnOutput = NotCalled
  /\ fnOutput' = [called |-> TRUE, value |-> value]
  /\ UNCHANGED <<fnName, fnInput, clientVars, serverVars, syncVars>>

getTextFromGeminiResponseCalled ==
  Call("getTextFromGeminiResponse", getTextFromGeminiResponse(fnInput))

geminiJsonRequestCalled ==
  Call("geminiJsonRequest",
       geminiJsonRequest(fnInput.operation, fnInput.reply))

responseLanguageInstruction(responseLanguage) ==
  IF responseLanguage = "ko"
  THEN "Write all natural-language fields in Korean."
  ELSE "Write all natural-language fields in English."

\* buildReviewPrompt(input): the lines of the prompt, the last of them the code.
\* A property the argument does not have reads as undefined: "undefined" in
\* a template literal, the empty string in Array.prototype.join
buildReviewPrompt(input) ==
  [lines |-> <<"You are a senior software engineer.",
               "Analyze the code and return ONLY valid JSON.",
               responseLanguageInstruction(input.responseLanguage),
               "JSON schema:",
               "{ 'summary': 'string', 'issues': [{ 'id': 'string', 'severity': 'low|medium|high', 'title': 'string', 'message': 'string', 'line': 1 }], 'refactoredCode': 'string', 'suggestedTests': ['string'] }",
               "",
               "filename: " \o (IF "filename" \in DOMAIN input
                                THEN input.filename ELSE "undefined"),
               "language: " \o (IF "language" \in DOMAIN input
                                THEN input.language ELSE "undefined"),
               "",
               "code:">>,
   code |-> IF "code" \in DOMAIN input THEN input.code ELSE <<>>]

\* the argument the review route hands to provider.review
reviewProviderInput(body) ==
  LET data == reviewRequestData(body)
      allFiles == reviewAllFiles(data)
  IN [files |-> [k \in 1..Len(allFiles) |->
                   [filename |-> allFiles[k].filename,
                    language |-> allFiles[k].language,
                    code |-> allFiles[k].code]],
      responseLanguage |-> orDefault(data.responseLanguage, "ko")]

\* provider.review up to the request: buildReviewPrompt(input)
buildReviewPromptCalled ==
  Call("buildReviewPrompt", buildReviewPrompt(fnInput))

\* ---- the thread store: src/src/lib/thread-store.ts
MaxRunRows ==
  3

MaxCreatedAt ==
  2

\* the database: table threads with two rows (the thread that was inserted
\* first is not pinned), table runs with any rows in the order they were
\* stored in
Databases ==
  LET RunRowIds == <<"r1", "r2", "r3", "r4", "r5">>
      Columns == [thread_id : {"t1", "t2"}, created_at : 1..MaxCreatedAt,
                  updated_at : {1, 2}]
  IN [threads : {<< [id |-> "t1", title |-> "A", pinned |-> 0,
                     updated_at |-> 2, created_at |-> 1,
                     active_run_id |-> NULL],
                    [id |-> "t2", title |-> "B", pinned |-> 1,
                     updated_at |-> 1, created_at |-> 1,
                     active_run_id |-> "r2"] >>},
      runs : UNION {{[k \in 1..n |->
                        [id |-> RunRowIds[k], thread_id |-> cols[k].thread_id,
                         created_at |-> cols[k].created_at,
                         updated_at |-> cols[k].updated_at]] :
                       cols \in [1..n -> Columns]} : n \in 0..MaxRunRows}]

RECURSIVE sortsBefore(_, _)
\* ORDER BY ... DESC on the columns of a key: the row of key a may not come
\* after the row of key b
sortsBefore(a, b) ==
  IF Len(a) = 0 THEN FALSE
  ELSE IF a[1] # b[1] THEN a[1] > b[1]
  ELSE sortsBefore(Tail(a), Tail(b))

\* SELECT ... ORDER BY: the rows in any order the keys allow (rows of equal
\* keys come in an order SQL leaves open)
selectOrderBy(rows, keys) ==
  {[k \in 1..Len(rows) |-> rows[p[k]]] :
     p \in {q \in [1..Len(rows) -> 1..Len(rows)] :
              /\ \A i, j \in 1..Len(rows) : i # j => q[i] # q[j]
              /\ \A i, j \in 1..Len(rows) :
                   i < j => ~sortsBefore(keys[q[j]], keys[q[i]])}}

\* rowToRun(row)
rowToRun(row) ==
  [id |-> row.id, createdAt |-> row.created_at, updatedAt |-> row.updated_at]

RECURSIVE sortRunsOldestFirst(_)
\* A mutant of sortRuns: the comparator is a.createdAt - b.createdAt
sortRunsOldestFirst(runs) ==
  IF Len(runs) = 0 THEN <<>>
  ELSE LET sorted == sortRunsOldestFirst(SubSeq(runs, 1, Len(runs) - 1))
           run == runs[Len(runs)]
           before == SelectSeq(sorted, LAMBDA e : e.createdAt <= run.createdAt)
           after == SelectSeq(sorted, LAMBDA e : e.createdAt > run.createdAt)
       IN before \o <<run>> \o after

RECURSIVE sortRuns(_)
\* [...runs].sort((a, b) => b.createdAt - a.createdAt): a stable sort, so a
\* run stays behind the runs before it that are not older
sortRuns(runs) ==
  IF Len(runs) = 0 THEN <<>>
  ELSE LET sorted == sortRuns(SubSeq(runs, 1, Len(runs) - 1))
           run == runs[Len(runs)]
           before == SelectSeq(sorted, LAMBDA e : e.createdAt >= run.createdAt)
           after == SelectSeq(sorted, LAMBDA e : e.createdAt < run.createdAt)
       IN before \o <<run>> \o after

\* A mutant of rowToThread: the stored active_run_id is handed back as it is
rowToThreadStoredActiveRun(row, runs) ==
  [id |-> row.id,
   title |-> row.title,
   pinned |-> row.pinned = 1,
   updatedAt |-> row.updated_at,
   runs |-> sortRuns(runs),
   activeRunId |-> row.active_run_id]

\* rowToThread(row, runs)
rowToThread(row, runs) ==
  LET resolvedRuns == sortRuns(runs)
  IN [id |-> row.id,
      title |-> row.title,
      pinned |-> row.pinned = 1,
      updatedAt |-> row.updated_at,
      runs |-> resolvedRuns,
      activeRunId |->
        IF row.active_run_id # NULL /\
           \E k \in 1..Len(resolvedRuns) : resolvedRuns[k].id = row.active_run_id
        THEN row.active_run_id
        ELSE IF Len(resolvedRuns) > 0 THEN resolvedRuns[1].id ELSE NULL]

\* listStoredThreads() on the rows the two SELECTs returned
listStoredThreads(threadRows, runRows) ==
  [k \in 1..Len(threadRows) |->
     rowToThread(threadRows[k],
                 LET rows == SelectSeq(runRows,
                               LAMBDA row : row.thread_id = threadRows[k].id)
                 IN [n \in 1..Len(rows) |-> rowToRun(rows[n])])]

\* getStoredThreadById(threadId) on the rows the second SELECT returned
getStoredThreadById(db, threadId, runRows) ==
  IF \A k \in 1..Len(db.threads) : db.threads[k].id # threadId
  THEN <<>>
  ELSE LET threadRow ==
             db.threads[CHOOSE k \in 1..Len(db.threads) :
                          db.threads[k].id = threadId]
       IN <<rowToThread(threadRow,
                        [n \in 1..Len(runRows) |-> rowToRun(runRows[n])])>>

listStoredThreadsCalled ==
  /\ fnName = "listStoredThreads"
  /\ LET db == fnInput.db
         \* ... FROM threads ORDER BY pinned DESC, updated_at DESC, created_at DESC
         threadKeys == [k \in 1..Len(db.threads) |->
                          <<db.threads[k].pinned, db.threads[k].updated_at,
                            db.threads[k].created_at>>]
         \* ... FROM runs ORDER BY created_at DESC
         runKeys == [k \in 1..Len(db.runs) |-> <<db.runs[k].created_at>>]
     IN \E threadRows \in selectOrderBy(db.threads, threadKeys),
           runRows \in selectOrderBy(db.runs, runKeys) :
          Call("listStoredThreads", listStoredThreads(threadRows, runRows))

getStoredThreadByIdCalled ==
  /\ fnName = "getStoredThreadById"
  /\ LET \* ... FROM runs WHERE thread_id = ?1 ORDER BY created_at DESC, updated_at DESC
         rows == SelectSeq(fnInput.db.runs,
                           LAMBDA row : row.thread_id = fnInput.threadId)
         keys == [k \in 1..Len(rows) |->
                    <<rows[k].created_at, rows[k].updated_at>>]
     IN \E runRows \in selectOrderBy(rows, keys) :
          Call("getStoredThreadById",
               getStoredThreadById(fnInput.db, fnInput.threadId, runRows))

\* A mutant of threadSyncRequestData: the schema trims nothing
threadSyncRequestDataUntrimmed(sent) ==
  [k \in 1..Len(sent) |->
     [sent[k] EXCEPT
        !.id = textString(@),
        !.title = textString(@),
        !.runs = [n \in 1..Len(@) |-> [@[n] EXCEPT !.id = textString(@)]]]]

\* threadSyncRequestSchema.safeParse(rawBody).data.threads: id and title of a
\* thread and the id of a run are z.string().trim(), the other fields are
\* handed on as they were sent
threadSyncRequestData(sent) ==
  [k \in 1..Len(sent) |->
     [sent[k] EXCEPT
        !.id = textString(Trim(@)),
        !.title = textString(Trim(@)),
        !.runs = [n \in 1..Len(@) |->
                    [@[n] EXCEPT !.id = textString(Trim(@))]]]]

RECURSIVE insertStatements(_, _)
\* the rows replaceStoredThreads inserts, in the order of the statements: the
\* row of a thread, then the rows of its runs
insertStatements(sent, now) ==
  IF Len(sent) = 0 THEN <<>>
  ELSE LET thread == sent[1]
           createdAt ==
             IF Len(thread.runs) > 0 THEN thread.runs[Len(thread.runs)].createdAt
             ELSE IF thread.updatedAt # 0 THEN thread.updatedAt ELSE now
       IN << [table |-> "threads",
              row |-> [id |-> thread.id, title |-> thread.title,
                       pinned |-> IF thread.pinned THEN 1 ELSE 0,
                       updated_at |-> IF thread.updatedAt # 0
                                      THEN thread.updatedAt ELSE now,
                       created_at |-> createdAt,
                       active_run_id |-> thread.activeRunId]] >> \o
          [n \in 1..Len(thread.runs) |->
             [table |-> "runs",
              row |-> [id |-> thread.runs[n].id, thread_id |-> thread.id,
                       created_at |-> thread.runs[n].createdAt,
                       updated_at |-> thread.runs[n].updatedAt]]] \o
          insertStatements(Tail(sent), now)

\* the tables after the two DELETEs and the first n INSERTs
insertedRows(statements, n) ==
  LET done == SubSeq(statements, 1, n)
      rowsOf(table) ==
        LET picked == SelectSeq(done, LAMBDA s : s.table = table)
        IN [k \in 1..Len(picked) |-> picked[k].row]
  IN [threads |-> rowsOf("threads"), runs |-> rowsOf("runs")]

\* A mutant of replaceStoredThreads: no transaction, so that the rows the
\* statements before the failing one wrote stay
replaceStoredThreadsNoRollback(db, sent, now) ==
  LET statements == insertStatements(sent, now)
      failing == {k \in 1..Len(statements) :
                    \E j \in 1..(k - 1) :
                      /\ statements[j].table = statements[k].table
                      /\ statements[j].row.id = statements[k].row.id}
  IN IF failing = {}
     THEN [raised |-> FALSE, db |-> insertedRows(statements, Len(statements))]
     ELSE [raised |-> TRUE,
           db |-> insertedRows(statements,
                    (CHOOSE k \in failing : \A j \in failing : k <= j) - 1)]

\* replaceStoredThreads(sent): BEGIN, DELETE FROM runs, DELETE FROM sent,
\* the INSERTs, COMMIT. An INSERT of an id its table already holds violates
\* the PRIMARY KEY and throws: ROLLBACK restores the tables and the error is
\* thrown on
replaceStoredThreads(db, sent, now) ==
  LET statements == insertStatements(sent, now)
      failing == {k \in 1..Len(statements) :
                    \E j \in 1..(k - 1) :
                      /\ statements[j].table = statements[k].table
                      /\ statements[j].row.id = statements[k].row.id}
  IN IF failing = {}
     THEN [raised |-> FALSE, db |-> insertedRows(statements, Len(statements))]
     ELSE [raised |-> TRUE, db |-> db]

\* PUT of /api/sent on a body that is JSON: the body is validated, the
\* store is replaced and read again
threadsPUTCalled ==
  /\ fnName = "PUT /api/threads"
  /\ LET sent == fnInput.threads
         accepted ==
           \A k \in 1..Len(sent) :
             /\ Len(Trim(sent[k].id)) > 0
             /\ Len(Trim(sent[k].title)) > 0
             /\ \A n \in 1..Len(sent[k].runs) :
                  Len(Trim(sent[k].runs[n].id)) > 0
         replaced == replaceStoredThreads(fnInput.db,
                                          threadSyncRequestData(sent),
                                          fnInput.now)
         db == replaced.db
         threadKeys == [k \in 1..Len(db.threads) |->
                          <<db.threads[k].pinned, db.threads[k].updated_at,
                            db.threads[k].created_at>>]
         runKeys == [k \in 1..Len(db.runs) |-> <<db.runs[k].created_at>>]
     IN IF ~accepted
        THEN Call("PUT /api/threads",
                  [status |-> 400, error |-> "Invalid request body",
                   db |-> fnInput.db, threads |-> <<>>])
        ELSE IF replaced.raised
        THEN Call("PUT /api/threads",
                  [status |-> 500, error |-> "Thread sync failed",
                   db |-> db, threads |-> <<>>])
        ELSE \E threadRows \in selectOrderBy(db.threads, threadKeys),
                runRows \in selectOrderBy(db.runs, runKeys) :
               Call("PUT /api/threads",
                    [status |-> 200, error |-> NULL, db |-> db,
                     threads |-> listStoredThreads(threadRows, runRows)])

InitCall ==
  /\ ClientIdle
  /\ SyncIdle
  /\ ServerIdle("review")
  /\ fnOutput = NotCalled
  /\ \/ fnName = "getTextFromGeminiResponse" /\ fnInput \in Payloads
     \/ /\ fnName = "geminiJsonRequest"
        /\ fnInput \in [operation : {"review", "generate"},
                        reply : ProviderReplies \cup
                                [kind : {"http"}, status : {200},
                                 payload : Payloads]]
     \/ /\ fnName = "buildReviewPrompt"
        /\ fnInput \in {reviewProviderInput(body) :
                          body \in {b \in ReviewRequests :
                                      reviewRequestRejection(b) = NoResponse}}
     \/ fnName = "listStoredThreads" /\ fnInput \in [db : Databases]
     \/ /\ fnName = "getStoredThreadById"
        /\ fnInput \in [db : Databases, threadId : {"t1", "t2", "t9"}]
     \/ /\ fnName = "PUT /api/threads"
        /\ fnInput \in
             LET SentRun(id, createdAt) ==
                   [id |-> id, createdAt |-> createdAt, updatedAt |-> 2]
                 FirstThreads ==
                   [id : {<<"t1">>}, title : {<<"A">>, <<" ", "A">>, <<" ">>},
                    pinned : BOOLEAN, updatedAt : {0, 2},
                    activeRunId : {NULL, "r1", "r9"},
                    runs : {<<>>, <<SentRun(<<"r1">>, 1)>>,
                            <<SentRun(<<"r1">>, 1), SentRun(<<"r2", " ">>, 2)>>,
                            <<SentRun(<<"r1">>, 2), SentRun(<<"r1">>, 1)>>}]
                 SecondThreads ==
                   [id : {<<"t2">>, <<" ", "t1">>, <<"t1">>}, title : {<<"B">>},
                    pinned : {FALSE}, updatedAt : {1}, activeRunId : {NULL},
                    runs : {<<>>, <<SentRun(<<"r2">>, 1)>>,
                            <<SentRun(<<"r3">>, 1)>>}]
             IN [db : {db \in Databases :
                         /\ Len(db.runs) = 1
                         /\ db.runs[1].thread_id = "t2"
                         /\ db.runs[1].created_at = 1
                         /\ db.runs[1].updated_at = 1},
                 now : {3},
                 threads : {<<>>} \cup {<<first>> : first \in FirstThreads} \cup
                           {<<first, second>> : first \in FirstThreads,
                                                second \in SecondThreads}]

NextCall ==
  \/ getTextFromGeminiResponseCalled
  \/ geminiJsonRequestCalled
  \/ buildReviewPromptCalled
  \/ listStoredThreadsCalled
  \/ getStoredThreadByIdCalled
  \/ threadsPUTCalled

SpecCall ==
  InitCall /\ [][NextCall]_vars

\* ------------------------------------------------------------------------
\* The thread sync of the client: the load and the sync effect of
\* src/src/app/page.tsx with PUT /api/threads of src/src/app/api/threads/route.ts
\* ------------------------------------------------------------------------
\* the sync effect after a render with a new thread list: the timer of the
\* earlier list is cleared, and a new one is set once the load has finished
syncEffect(ready) ==
  syncTimer' = ready

\* loadThreads: GET /api/threads has answered, or has failed
loadThreadsSettled ==
  \E failed \in BOOLEAN :
    /\ loadState = "pending"
    /\ loadState' = IF failed THEN "failed" ELSE "done"
    /\ dbSyncReadyRef' = TRUE
    /\ IF ~failed /\ Len(store) > 0
       THEN /\ threads' = store
            /\ activeThreadId' = store[1].id
            /\ syncEffect(TRUE)
       ELSE UNCHANGED <<threads, activeThreadId, syncTimer>>
    /\ UNCHANGED <<isSubmitting, runningRequestRef, inflight, nextRunNo,
                   nextThreadNo, store, puts, nextPutNo, serverVars, callVars>>

\* handleNewThread with no request in flight, and the sync effect after it
syncNewThread ==
  /\ nextThreadNo <= MaxThreads + 1
  /\ inflight = {}
  /\ threads' = <<createDefaultThread(nextThreadNo)>> \o threads
  /\ activeThreadId' = nextThreadNo
  /\ nextThreadNo' = nextThreadNo + 1
  /\ syncEffect(dbSyncReadyRef)
  /\ UNCHANGED <<isSubmitting, runningRequestRef, inflight, nextRunNo,
                 loadState, dbSyncReadyRef, store, puts, nextPutNo,
                 serverVars, callVars>>

\* the timer of the sync effect fires: PUT /api/threads is sent with the
\* thread list of that render; the response is not awaited by anything
syncTimerFires ==
  /\ syncTimer
  /\ syncTimer' = FALSE
  /\ puts' = puts \cup {[no |-> nextPutNo, threads |-> threads]}
  /\ nextPutNo' = nextPutNo + 1
  /\ UNCHANGED <<clientVars, serverVars, callVars>>

\* PUT of /api/threads: replaceStoredThreads(parsedBody.data.threads); the
\* requests under way are handled in any order
threadsPUT ==
  \E put \in puts :
    /\ puts' = puts \ {put}
    /\ store' = put.threads
    /\ UNCHANGED <<threads, activeThreadId, isSubmitting, runningRequestRef,
                   inflight, nextRunNo, nextThreadNo, loadState,
                   dbSyncReadyRef, syncTimer, nextPutNo, serverVars, callVars>>

InitSync ==
  InitClient

NextSync ==
  \/ loadThreadsSettled
  \/ syncNewThread
  \/ syncTimerFires
  \/ threadsPUT

SpecSync ==
  InitSync /\ [][NextSync]_vars

\* ------------------------------------------------------------------------
\* Claims
\* ------------------------------------------------------------------------
RunLifecycleStep ==
  \A r \in AllRuns(threads') :
    IF \E old \in AllRuns(threads) : old.id = r.id
    THEN \A old \in AllRuns(threads) :
           old.id = r.id =>
             \/ old.status = r.status
             \/ old.status = "running" /\ r.status \in {"success", "failed", "cancelled"}
    ELSE r.id >= 1 => r.status = "running"

\* C1: every run a submit creates starts as running, and a run changes status
\* only from running to success, failed or cancelled; a run that is success,
\* failed or cancelled keeps that status whatever happens later.
C1_RunLifecycle ==
  [][RunLifecycleStep]_vars

\* A cancelled run whose request has settled, next to a newer successful run.
C1_Witness ==
  /\ inflight = {}
  /\ \E r1 \in AllRuns(threads), r2 \in AllRuns(threads) :
       /\ r1.id >= 1 /\ r2.id > r1.id
       /\ r1.status = "cancelled"
       /\ r2.status = "success"

Is429(result) ==
  result.kind = "http" /\ result.status = 429

C5_CancellationWins ==
  (rpc = "done" /\ callerAborted) =>
    /\ outcome.kind = "cancelled"
    /\ \A i \in 1..Len(callLog) :
         callLog[i].networkCall => ~callLog[i].afterAbort

RetryableByClaim(result) ==
  \/ result.kind = "timeout"
  \/ result.kind = "network"
  \/ result.kind = "http" /\ result.status = 429
  \/ result.kind = "http" /\ result.status >= 500

SentCodes(body) ==
  (IF body.files.present
   THEN [k \in 1..Len(body.files.value) |-> body.files.value[k].code]
   ELSE <<>>) \o
  (IF body.code.present THEN <<body.code.value>> ELSE <<>>)

TrimmedCodes(body) ==
  [k \in 1..Len(SentCodes(body)) |-> stringTrim(SentCodes(body)[k])]

RECURSIVE SumOfLengths(_)
SumOfLengths(codes) ==
  IF Len(codes) = 0 THEN 0
  ELSE stringLength(codes[1]) + SumOfLengths(Tail(codes))

LimitDetails ==
  {<<"Too many files. Maximum is 12.">>,
   <<"Total code size is too large. Maximum is 80000 characters.">>}

ReviewHandled ==
  op = "review" /\ rpc # "idle" /\ request.json

\* C8 as stated: the character limit is taken on the codes as the caller sent
\* them.
C8_LimitsOnSentCode ==
  ReviewHandled =>
    ((Len(SentCodes(request)) > 12 \/ SumOfLengths(SentCodes(request)) > 80000)
       => (response.status = 400 /\ providerCalls = 0))

\* C8: a review request with more than 12 files (the inline code counted as
\* one), or whose codes, each with its surrounding whitespace trimmed, sum to
\* more than 80,000 characters, is answered 400 without a provider call; a
\* request within both limits is not rejected by them, 12 files and 80,000
\* trimmed characters included.
C8_LimitsOnTrimmedCode ==
  ReviewHandled =>
    /\ (Len(SentCodes(request)) > 12 \/ SumOfLengths(TrimmedCodes(request)) > 80000)
         => (response.status = 400 /\ providerCalls = 0)
    /\ (Len(SentCodes(request)) <= 12 /\ SumOfLengths(TrimmedCodes(request)) <= 80000)
         => response.details \notin LimitDetails

\* Exactly 12 files whose trimmed codes sum to exactly 80,000 characters, sent
\* with more than 80,000 characters, reached the provider.
C8_Witness ==
  /\ op = "review"
  /\ rpc = "calling"
  /\ providerCalls = 1
  /\ Len(SentCodes(request)) = 12
  /\ SumOfLengths(TrimmedCodes(request)) = 80000
  /\ SumOfLengths(SentCodes(request)) > 80000

NonBlank(field) ==
  field.present => Len(Trim(field.value)) > 0

OneOf(field, options) ==
  field.present => JoinStrings(field.value, "") \in options

\* the request is one the handler has nothing to object to
PassesValidation ==
  /\ request.json
  /\ request.object
  /\ IF op = "review"
     THEN /\ request.code.present \/ request.files.present
          /\ request.files.present => Len(request.files.value) > 0
          /\ \A k \in 1..Len(request.files.value) :
               /\ Len(Trim(request.files.value[k].filename)) > 0
               /\ NonBlank(request.files.value[k].language)
          /\ \A k \in 1..Len(SentCodes(request)) :
               stringLength(TrimmedCodes(request)[k]) > 0
          /\ NonBlank(request.filename)
          /\ NonBlank(request.language)
          /\ Len(SentCodes(request)) <= 12
          /\ SumOfLengths(TrimmedCodes(request)) <= 80000
     ELSE /\ request.prompt.present
          /\ stringLength(stringTrim(request.prompt.value)) > 0
          /\ OneOf(request.language,
                   {"typescript", "javascript", "python", "java", "kotlin"})
          /\ OneOf(request.style, {"clean", "fast", "explain"})
          /\ OneOf(request.responseLanguage, {"ko", "en"})

\* C9 as stated: the class of a failure follows from whether the provider call
\* had been started.
C9_ClassByProviderCall ==
  (rpc = "done" /\ ~response.ok) =>
    /\ providerCalls = 0 => response.status = 400
    /\ providerCalls > 0 =>
         (response.status = 502 /\ response.details = <<outcome.message>>)

\* C9: for review and generate, a request that fails parsing or validation is
\* answered 400 and never reaches the provider; every failure of a request that
\* passed validation, a provider configuration error raised before any provider
\* call included, is answered 502 with the underlying message as its detail.
C9_ClassByValidation ==
  /\ (rpc = "done" /\ ~response.ok) =>
       IF PassesValidation
       THEN /\ response.status = 502
            /\ ~outcome.ok
            /\ response.details = <<outcome.message>>
       ELSE /\ response.status = 400
            /\ providerCalls = 0
  /\ response.status = 502 => PassesValidation
  /\ providerCalls > 0 => response.status # 400
  /\ (rpc # "idle" /\ ~PassesValidation) => response.status = 400

\* A valid generate request answered 502 before any provider call: the API key
\* is not configured.
C9_Witness ==
  /\ op = "generate"
  /\ rpc = "done"
  /\ PassesValidation
  /\ providerCalls = 0
  /\ response.status = 502
  /\ response.details = <<"GEMINI_API_KEY is not configured">>

\* the newline-delimited segments of a code: 0 for the empty string
Segments(code) ==
  IF stringLength(code) = 0 THEN 0
  ELSE 1 + Cardinality({i \in 1..Len(code) : code[i].c \in {"\n", "\r\n"}})

RECURSIVE SumOfSegments(_)
SumOfSegments(codes) ==
  IF Len(codes) = 0 THEN 0
  ELSE Segments(codes[1]) + SumOfSegments(Tail(codes))

\* the code of the primary file: the inline code, else that of the first file
PrimaryOf(codes) ==
  IF request.code.present THEN codes[Len(codes)] ELSE codes[1]

ReviewSucceeded ==
  op = "review" /\ rpc = "done" /\ response.ok

\* C10 as stated: the lines are counted on the code as the caller sent it.
C10_LineCountsOfSentCode ==
  ReviewSucceeded =>
    /\ response.data.input.fileCount = Len(SentCodes(request))
    /\ response.data.input.totalLineCount = SumOfSegments(SentCodes(request))
    /\ response.data.input.lineCount = Segments(PrimaryOf(SentCodes(request)))

\* C10: in a successful review response fileCount is the number of files of the
\* request, totalLineCount is the sum of their line counts and lineCount is that
\* of the primary file, the line count of a file being the number of
\* newline-delimited segments of its code after the surrounding whitespace is
\* trimmed and CRLF is replaced by LF, which is at least 1.
C10_LineCountsOfTrimmedCode ==
  ReviewSucceeded =>
    /\ response.data.input.fileCount = Len(SentCodes(request))
    /\ response.data.input.totalLineCount = SumOfSegments(TrimmedCodes(request))
    /\ response.data.input.lineCount = Segments(PrimaryOf(TrimmedCodes(request)))
    /\ \A k \in 1..Len(SentCodes(request)) : Segments(TrimmedCodes(request)[k]) >= 1

\* A successful review of three or more files, some of several lines, one of
\* them sent with a trailing line break.
C10_Witness ==
  /\ ReviewSucceeded
  /\ response.data.input.fileCount >= 3
  /\ response.data.input.totalLineCount > response.data.input.fileCount + 1
  /\ SumOfSegments(SentCodes(request)) > response.data.input.totalLineCount
  /\ request.code.present
  /\ request.files.present

\* the request of the example: prompt "reverse a string" (7 letters, a space,
\* 1 letter, a space, 6 letters), language python, style clean
ReverseAStringRequest ==
  [json |-> TRUE, object |-> TRUE,
   prompt |-> Some(<<X(7), SP, X(1), SP, X(6)>>), code |-> None,
   filename |-> None, language |-> Some(<<"python">>), style |-> Some(<<"clean">>),
   responseLanguage |-> None, files |-> None]

GenerateSucceeded ==
  op = "generate" /\ rpc = "done" /\ response.ok

ValueOr(field, fallback) ==
  IF field.present THEN JoinStrings(field.value, "") ELSE fallback

\* C11 as stated: the example answers promptLength 18.
C11_ExamplePromptLength18 ==
  (GenerateSucceeded /\ request = ReverseAStringRequest) =>
    response.data.input = [language |-> "python", style |-> "clean",
                           responseLanguage |-> "ko", promptLength |-> 18]

\* C11: a successful generate response has mode generate, the provider's
\* summary, code and notes unchanged, language, style and responseLanguage as
\* sent or typescript, clean and ko when omitted, and promptLength the length of
\* the prompt with its surrounding whitespace trimmed: 16 for "reverse a string".
C11_GenerateEcho ==
  GenerateSucceeded =>
    /\ response.status = 200
    /\ response.data.mode = "generate"
    /\ response.data.input.language = ValueOr(request.language, "typescript")
    /\ response.data.input.style = ValueOr(request.style, "clean")
    /\ response.data.input.responseLanguage = ValueOr(request.responseLanguage, "ko")
    /\ response.data.input.promptLength = stringLength(stringTrim(request.prompt.value))
    /\ response.data.summary = outcome.data.summary
    /\ response.data.code = outcome.data.code
    /\ response.data.notes = outcome.data.notes
    /\ request = ReverseAStringRequest =>
         response.data.input = [language |-> "python", style |-> "clean",
                                responseLanguage |-> "ko", promptLength |-> 16]

\* The example request answered with the provider's summary "ok" and no notes.
C11_Witness ==
  /\ GenerateSucceeded
  /\ request = ReverseAStringRequest
  /\ response.data.summary = "ok"
  /\ response.data.notes = <<>>
  /\ response.data.input.promptLength = 16

\* the string is empty or holds nothing but whitespace
Blank(s) ==
  \A i \in 1..Len(s) : s[i].c \in {" ", "\r", "\n", "\r\n"}

CodeViolations ==
  {"code: 'code' is required", "code: 'code' or 'files' is required"}

\* C12: a review request without files whose code is empty or only whitespace
\* is answered 400 "Invalid request body" with a violation on the code field
\* among the details, and the provider is not called.
C12_BlankCodeRejected ==
  (op = "review" /\ rpc # "idle" /\ request.json /\ ~request.files.present
     /\ request.code.present /\ Blank(request.code.value)) =>
    /\ rpc = "done"
    /\ response.status = 400
    /\ ~response.ok
    /\ response.error = "Invalid request body"
    /\ \E i \in 1..Len(response.details) : response.details[i] \in CodeViolations
    /\ providerCalls = 0
    /\ outcome = Pending

\* Whitespace-only code sent with a filename and no files was rejected.
C12_Witness ==
  /\ op = "review"
  /\ rpc = "done"
  /\ ~request.files.present
  /\ request.code.present
  /\ Len(request.code.value) > 0
  /\ Blank(request.code.value)
  /\ request.filename.present
  /\ response.status = 400
  /\ response.details[1] = "code: 'code' is required"

\* the violations of the request body, and one of them as a details string
\* with the given name for the empty path
RequestIssues ==
  IF op = "review" THEN reviewRequestIssues(request)
  ELSE generateRequestIssues(request)

RenderedAs(issue, emptyPathName) ==
  (IF issue.path = <<>> THEN emptyPathName ELSE JoinStrings(issue.path, "."))
    \o ": " \o issue.message

RequestRejectedBySchema ==
  rpc = "done" /\ request.json /\ Len(RequestIssues) > 0

\* the messages of the schema mismatches the provider's documents can cause
SchemaMismatchMessages ==
  {"Gemini output schema mismatch: root: Expected object, received number",
   "Gemini output schema mismatch: issues.0.severity: Invalid enum value, issues.0.line: Number must be greater than 0",
   "Gemini output schema mismatch: summary: Required, issues: Required, refactoredCode: Required, suggestedTests: Required",
   "Gemini output schema mismatch: issues: Required, refactoredCode: Required, suggestedTests: Required",
   "Gemini output schema mismatch: code: Required, notes: Required",
   "Gemini output schema mismatch: summary: Required, code: Required, notes: Required"}

\* C13 as stated: at the request boundary too a violation with an empty path
\* is reported as "root: <message>".
C13_RootAtRequestBoundary ==
  RequestRejectedBySchema =>
    response.details =
      [i \in 1..Len(RequestIssues) |-> RenderedAs(RequestIssues[i], "root")]

\* C13: at the request boundary every schema violation is one details string
\* "<dotted-path>: <message>", with "body" for the empty path; at the
\* model-output boundary the violations are rendered the same way with "root"
\* for the empty path, and joined by ", " into the one message
\* "Gemini output schema mismatch: ...", which is the only details string.
C13_ViolationsAsDetails ==
  /\ RequestRejectedBySchema =>
       /\ response.status = 400
       /\ response.details =
            [i \in 1..Len(RequestIssues) |-> RenderedAs(RequestIssues[i], "body")]
  /\ (rpc = "done" /\ outcome.kind = "schema") =>
       /\ response.status = 502
       /\ response.details = <<outcome.message>>
       /\ outcome.message \in SchemaMismatchMessages

\* A body that is JSON but not an object was rejected: the empty path.
C13_Witness ==
  /\ RequestRejectedBySchema
  /\ request = NumberRequest
  /\ response.details = <<"body: Expected object, received number">>

RECURSIVE Concatenated(_)
\* the texts one after the other, nothing between them
Concatenated(texts) ==
  IF Len(texts) = 0 THEN <<>> ELSE texts[1] \o Concatenated(Tail(texts))

RECURSIVE JoinedByLineBreak(_)
\* the texts one after the other, a line break between two of them
JoinedByLineBreak(texts) ==
  IF Len(texts) = 0 THEN <<>>
  ELSE IF Len(texts) = 1 THEN texts[1]
  ELSE texts[1] \o <<"\n">> \o JoinedByLineBreak(Tail(texts))

RECURSIVE WithoutBlankEnds(_)
\* the text without the whitespace at its two ends
WithoutBlankEnds(text) ==
  IF Len(text) = 0 THEN text
  ELSE IF text[1] \in {" ", "\n", "\r\n"} THEN WithoutBlankEnds(Tail(text))
  ELSE IF text[Len(text)] \in {" ", "\n", "\r\n"}
  THEN WithoutBlankEnds(SubSeq(text, 1, Len(text) - 1))
  ELSE text

ExtractionCalled ==
  fnName = "getTextFromGeminiResponse" /\ fnOutput # NotCalled

\* what extraction answers when the parts of candidates[0] are put together
\* as `text`
ExtractionIs(text) ==
  LET result == fnOutput.value
  IN IF ~fnInput.object
     THEN result = [ok |-> FALSE,
                    message |-> "Gemini returned an invalid response payload"]
     ELSE IF fnInput.error # NULL
     THEN result = [ok |-> FALSE, message |-> fnInput.error]
     ELSE IF fnInput.candidates = <<>>
     THEN result = [ok |-> FALSE, message |-> "Gemini returned no candidates"]
     ELSE IF fnInput.candidates[1] = <<>>
     THEN result = [ok |-> FALSE, message |-> "Gemini returned empty content"]
     ELSE IF WithoutBlankEnds(text) = <<>>
     THEN result = [ok |-> FALSE,
                    message |-> "Gemini returned empty text output"]
     ELSE result = [ok |-> TRUE, text |-> WithoutBlankEnds(text)]

\* C14 as stated: the text is the concatenation of the parts, trimmed.
C14_ConcatenatedParts ==
  ExtractionCalled =>
    ExtractionIs(IF Len(fnInput.candidates) > 0
                 THEN Concatenated(fnInput.candidates[1]) ELSE <<>>)

\* C14: extraction yields the text parts of candidates[0] joined by a line
\* break and trimmed; it fails with its own message when the body is not an
\* object, has no candidates, has no parts or has empty joined text, and with
\* exactly the embedded error message when the body carries one, whatever else
\* the body contains.
C14_JoinedParts ==
  ExtractionCalled =>
    ExtractionIs(IF Len(fnInput.candidates) > 0
                 THEN JoinedByLineBreak(fnInput.candidates[1]) ELSE <<>>)

\* Two parts with text were extracted as one text with a line break between.
C14_Witness ==
  /\ ExtractionCalled
  /\ fnInput.error = NULL
  /\ Len(fnInput.candidates) = 2
  /\ fnInput.candidates[1] = << <<"{review}">>, <<"Here", " ", "is">> >>
  /\ fnOutput.value = [ok |-> TRUE,
                       text |-> <<"{review}", "\n", "Here", " ", "is">>]

\* the provider's text of an attempt that came as far as the output validator
ValidatedText ==
  getTextFromGeminiResponse(fnInput.reply.payload).text

ValidatorCalled ==
  /\ fnName = "geminiJsonRequest"
  /\ fnOutput # NotCalled
  /\ fnInput.reply.kind = "http"
  /\ fnInput.reply.status = 200
  /\ getTextFromGeminiResponse(fnInput.reply.payload).ok

\* the one JSON document the text spells, if it spells one
SpelledDocument ==
  LET body == WithoutBlankEnds(ValidatedText)
  IN IF Len(body) = 1 /\ body[1] \in DOMAIN JsonDocuments
     THEN <<JsonDocuments[body[1]]>> ELSE <<>>

RECURSIVE CommaJoined(_)
CommaJoined(messages) ==
  IF Len(messages) = 1 THEN messages[1]
  ELSE messages[1] \o ", " \o CommaJoined(Tail(messages))

\* the keys of a parsed value that the operation's result schema names
SchemaFieldsOf(operation, value) ==
  IF operation = "review"
  THEN [summary |-> value.summary,
        issues |-> [k \in 1..Len(value.issues) |->
                      [f \in {"id", "severity", "title", "message", "line"} |->
                         value.issues[k][f]]],
        refactoredCode |-> value.refactoredCode,
        suggestedTests |-> value.suggestedTests]
  ELSE [summary |-> value.summary, code |-> value.code, notes |-> value.notes]

\* what the validator answers for its text when a conforming value is
\* returned as `returned`
ValidatorIs(returned) ==
  LET result == fnOutput.value
      violations == schemaIssues(fnInput.operation, SpelledDocument[1])
  IN IF SpelledDocument = <<>>
     THEN /\ ~result.ok
          /\ result.message = "Gemini returned non-JSON output"
     ELSE IF violations # <<>>
     THEN /\ ~result.ok
          /\ result.message =
               "Gemini output schema mismatch: " \o CommaJoined(violations)
     ELSE /\ result.ok
          /\ result.data = returned

\* C15 as stated: a conforming parsed value is returned untransformed.
C15_ParsedValueUntransformed ==
  ValidatorCalled =>
    ValidatorIs(IF SpelledDocument # <<>> THEN SpelledDocument[1] ELSE NoData)

\* C15: the output validator returns a result only for text that parses as
\* JSON and satisfies the operation's result schema, and then returns the
\* parsed value reduced to the fields the schema names (unknown keys are
\* dropped, at the top level and in every issue); non-JSON text fails with
\* "Gemini returned non-JSON output", and a schema mismatch fails with one
\* error that lists every violation as "<path>: <message>", joined by ", ".
C15_SchemaFieldsReturned ==
  ValidatorCalled =>
    ValidatorIs(IF SpelledDocument # <<>> /\
                   schemaIssues(fnInput.operation, SpelledDocument[1]) = <<>>
                THEN SchemaFieldsOf(fnInput.operation, SpelledDocument[1])
                ELSE NoData)

\* A review output with keys the schema does not name was validated and came
\* back without them.
C15_Witness ==
  /\ ValidatorCalled
  /\ fnInput.operation = "review"
  /\ SpelledDocument = <<JsonDocuments["{review-extra}"]>>
  /\ fnOutput.value.ok
  /\ DOMAIN fnOutput.value.data =
       {"summary", "issues", "refactoredCode", "suggestedTests"}
  /\ DOMAIN fnOutput.value.data.issues[1] =
       {"id", "severity", "title", "message", "line"}

PromptBuilt ==
  fnName = "buildReviewPrompt" /\ fnOutput # NotCalled

\* the prompt has a line with the file's name, a line with its language, and
\* its code somewhere in the code block
PromptHoldsFile(prompt, file) ==
  /\ \E i \in 1..Len(prompt.lines) : prompt.lines[i] = "filename: " \o file.filename
  /\ \E i \in 1..Len(prompt.lines) : prompt.lines[i] = "language: " \o file.language
  /\ \E i \in 1..(Len(prompt.code) + 1), j \in 0..Len(prompt.code) :
       SubSeq(prompt.code, i, j) = file.code

\* C16: for a review request with several files, the prompt sent to the
\* provider contains the filename, the language and the code of every file.
C16_PromptHoldsEveryFile ==
  PromptBuilt /\ Len(fnInput.files) > 1 =>
    \A k \in 1..Len(fnInput.files) :
      PromptHoldsFile(fnOutput.value, fnInput.files[k])

\* the requests in flight whose controller has not been aborted
LiveRequests(reqs) ==
  {q \in reqs : ~q.aborted}

\* the run a request was started for, where the thread list still has it
RunsOfRequest(ths, q) ==
  UNION {{ths[i].runs[k] : k \in {n \in 1..Len(ths[i].runs) :
                                    ths[i].runs[n].id = q.runId}} :
           i \in {n \in 1..Len(ths) : ths[n].id = q.threadId}}

\* a request is started, or the user moves to another thread (a new one, a
\* selected one, or the one that follows the deleted active thread)
SupersedingStep ==
  \/ \E n \in inflight' : \A q \in inflight : q.controller # n.controller
  \/ activeThreadId' # activeThreadId /\ loadState' = loadState

OneLiveRequestStep ==
  /\ Cardinality(LiveRequests(inflight')) <= 1
  /\ SupersedingStep =>
       \A q \in LiveRequests(inflight) :
         /\ [q EXCEPT !.aborted = TRUE] \in inflight'
         /\ \A r \in RunsOfRequest(threads', q) : r.status = "cancelled"

\* C17: in one client session at most one request is in flight and not
\* aborted at any time: submitting a review or generate, creating a thread,
\* switching thread or deleting the active thread aborts the request in
\* flight and marks its run cancelled before anything else is started.
C17_OneLiveRequest ==
  [][OneLiveRequestStep]_vars

\* A second submit in the same thread: the first request is aborted and its
\* run cancelled, the second is in flight and its run running.
C17_Witness ==
  \E q \in inflight, n \in inflight :
    /\ q.aborted /\ ~n.aborted
    /\ q.threadId = n.threadId
    /\ \E r \in RunsOfRequest(threads, q) : r.status = "cancelled"
    /\ \E r \in RunsOfRequest(threads, n) : r.status = "running"

\* the ids of the runs: those a previous session stored, those a submit creates
RunIds ==
  {-2, -1} \cup (1..(MaxRuns + 1))

IsRunning(id) ==
  \E r \in AllRuns(threads) : r.id = id /\ r.status = "running"

HasRequest(id) ==
  \E q \in inflight : q.runId = id

\* every run a submit of this session created and that is still running has
\* its request in flight
SessionRunsHaveRequest ==
  \A id \in 1..(MaxRuns + 1) : IsRunning(id) => HasRequest(id)

\* every run a submit of this session created leaves status running
SessionRunsLeaveRunning ==
  \A id \in 1..(MaxRuns + 1) : IsRunning(id) ~> ~IsRunning(id)

\* C18: every run that is created eventually leaves status running, and no
\* run stays running once no request for it is in flight.
C18_RunsLeaveRunning ==
  \A id \in RunIds : (IsRunning(id) /\ ~HasRequest(id)) ~> ~IsRunning(id)

\* C19: in every reachable client state, a run with status success has a
\* non-null result and a null error message, a run with status failed or
\* cancelled has a non-null error message and a null result, and a run with
\* status running has neither.
C19_StatusMatchesFields ==
  \A r \in AllRuns(threads) :
    /\ r.status = "success" => r.result # NULL /\ r.errorMessage = NULL
    /\ r.status \in {"failed", "cancelled"} =>
         r.errorMessage # NULL /\ r.result = NULL
    /\ r.status = "running" => r.result = NULL /\ r.errorMessage = NULL

\* A thread that holds a failed run and a cancelled run of this session.
C19_Witness ==
  \E r1 \in AllRuns(threads), r2 \in AllRuns(threads) :
    /\ r1.id >= 1 /\ r2.id >= 1
    /\ r1.status = "failed" /\ r1.errorMessage \in FailureMessages
    /\ r2.status = "cancelled" /\ r2.errorMessage = ABORT_MESSAGE

\* the threads a call of the thread store returned
ReturnedThreads ==
  IF fnOutput = NotCalled THEN {}
  ELSE IF fnName \in {"listStoredThreads", "getStoredThreadById"}
  THEN {fnOutput.value[k] : k \in 1..Len(fnOutput.value)}
  ELSE {}

\* the stored creation times of the runs of a thread, in the order of storage
StoredCreationTimes(threadId) ==
  LET rows == SelectSeq(fnInput.db.runs, LAMBDA row : row.thread_id = threadId)
  IN [k \in 1..Len(rows) |-> rows[k].created_at]

\* C20: the runs of every thread returned by the thread store
\* (listStoredThreads and getStoredThreadById) are the stored runs of the
\* thread, ordered by creation time, newest first, whatever order they were
\* stored in.
C20_RunsNewestFirst ==
  \A thread \in ReturnedThreads :
    /\ {thread.runs[k].id : k \in 1..Len(thread.runs)} =
         {fnInput.db.runs[k].id :
            k \in {n \in 1..Len(fnInput.db.runs) :
                     fnInput.db.runs[n].thread_id = thread.id}}
    /\ Len(thread.runs) = Len(StoredCreationTimes(thread.id))
    /\ \A i, j \in 1..Len(thread.runs) :
         i < j => thread.runs[i].createdAt >= thread.runs[j].createdAt

\* A thread whose three runs were stored oldest first, two of them created at
\* the same time, was listed with the newest runs first.
C20_Witness ==
  /\ fnName = "listStoredThreads"
  /\ \E thread \in ReturnedThreads :
       /\ StoredCreationTimes(thread.id) = <<1, 2, 2>>
       /\ [k \in 1..Len(thread.runs) |-> thread.runs[k].createdAt] = <<2, 2, 1>>

\* C21: in every successful review response, the ids of the issues are
\* pairwise distinct and every issue's line is a positive integer.
C21_DistinctIdsPositiveLines ==
  ReviewSucceeded =>
    LET issues == response.data.issues
    IN /\ \A i, j \in 1..Len(issues) : i # j => issues[i].id # issues[j].id
       /\ \A i \in 1..Len(issues) : issues[i].line > 0

\* the operation is over and its last attempt ran into the hard timeout
EndedInTimeout ==
  /\ rpc = "done"
  /\ Len(callLog) > 0
  /\ callLog[Len(callLog)].result.kind = "timeout"

SupersededRequestEnds ==
  \E q \in inflight :
    /\ q \notin inflight'
    /\ runningRequestRef # NoRunningRequest
    /\ runningRequestRef.controller # q.controller

\* C23: whenever no event handler is executing, isSubmitting is true exactly
\* when a running-request context is recorded; the completion (success,
\* failure or abort) of a request that was superseded by a newer one neither
\* clears the newer request's context nor resets isSubmitting.
C23_SubmittingIffContext ==
  /\ [](isSubmitting <=> runningRequestRef # NoRunningRequest)
  /\ [][SupersededRequestEnds =>
          /\ runningRequestRef' = runningRequestRef
          /\ isSubmitting' = isSubmitting]_vars

\* The superseded request has ended (its run is cancelled and nothing is in
\* flight for it), the newer request is still in flight and still recorded.
C23_Witness ==
  /\ isSubmitting
  /\ \E n \in inflight :
       /\ inflight = {n}
       /\ ~n.aborted
       /\ runningRequestRef.controller = n.controller
       /\ \E r \in AllRuns(threads) :
            r.id >= 1 /\ r.id < n.runId /\ r.status = "cancelled"

\* the load of the stored threads completes and every running run is still in
\* the thread list
RunKeptByLoad ==
  loadState' # loadState =>
    \A r \in AllRuns(threads) :
      r.status = "running" => \E kept \in AllRuns(threads') : kept.id = r.id

\* a request that was not aborted settles and its run holds the outcome
OutcomeWritten ==
  \A q \in inflight :
    (~q.aborted /\ q \notin inflight' /\
     [q EXCEPT !.aborted = TRUE] \notin inflight') =>
      \E r \in RunsOfRequest(threads', q) : r.status \in {"success", "failed"}

\* C24: a run started by a submit is recorded in the client's thread list and
\* its outcome is written to it, also when the initial load of stored threads
\* completes after the submit: the completion of the load never discards a
\* thread that holds a running run.
C24_LoadKeepsRunningRun ==
  [][RunKeptByLoad /\ OutcomeWritten]_vars

\* the threads the store held are still in it
StoredThreadsKept ==
  \A i \in 1..Len(store) : \E j \in 1..Len(store') : store'[j].id = store[i].id

\* C25: the client sends no thread sync (PUT /api/threads) before the initial
\* load of stored threads has finished, and if that load failed, no later sync
\* replaces the threads already in the store with the client's in-memory
\* default thread.
C25_NoSyncOverUnloadedStore ==
  /\ [](loadState = "pending" => puts = {} /\ nextPutNo = 1)
  /\ [][loadState = "failed" => StoredThreadsKept]_vars

\* at least one sync was sent, none is under way and none is due
SyncsProcessed ==
  /\ loadState # "pending"
  /\ nextPutNo > 1
  /\ ~syncTimer
  /\ puts = {}

\* C26: once the client stops changing its threads and all syncs it sent have
\* been processed, the store holds the client's latest thread list, whatever
\* order the server processes concurrent PUT requests in.
C26_StoreHoldsLatestList ==
  SyncsProcessed => store = threads

\* the active_run_id stored in the row of a thread
StoredActiveRunId(threadId) ==
  LET rows == SelectSeq(fnInput.db.threads, LAMBDA row : row.id = threadId)
  IN rows[1].active_run_id

\* C28: in every thread returned by the thread store, activeRunId is null
\* exactly when the thread has no runs, and otherwise is the id of one of that
\* thread's runs: a stored activeRunId that matches no run is replaced by the
\* id of the newest run.
C28_ActiveRunIsOneOfTheRuns ==
  \A thread \in ReturnedThreads :
    LET ids == {thread.runs[k].id : k \in 1..Len(thread.runs)}
    IN /\ thread.activeRunId = NULL <=> Len(thread.runs) = 0
       /\ Len(thread.runs) > 0 => thread.activeRunId \in ids
       /\ StoredActiveRunId(thread.id) \in ids =>
            thread.activeRunId = StoredActiveRunId(thread.id)
       /\ Len(thread.runs) > 0 /\ StoredActiveRunId(thread.id) \notin ids =>
            /\ thread.activeRunId = thread.runs[1].id
            /\ \A k \in 1..Len(thread.runs) :
                 thread.runs[k].createdAt <= thread.runs[1].createdAt

\* Thread t2 was stored with the active run r2, which is a run of thread t1;
\* it was returned with its newest run r3 as the active one, and thread t1,
\* stored with no active run, with its only run r2.
C28_Witness ==
  /\ fnName = "listStoredThreads"
  /\ \E t1, t2 \in ReturnedThreads :
       /\ t1.id = "t1" /\ t1.activeRunId = "r2" /\ Len(t1.runs) = 1
       /\ t2.id = "t2" /\ StoredActiveRunId("t2") = "r2"
       /\ Len(t2.runs) = 2 /\ t2.activeRunId = "r3"
       /\ t2.runs[2].createdAt < t2.runs[1].createdAt

\* the files handed to the provider for the request
ReviewedFiles ==
  reviewProviderInput(request).files

\* the name and the language the inline code of the request goes by
InlineEcho ==
  [filename |-> IF request.filename.present THEN "lib.py"
                ELSE IF request.language.present THEN "snippet.kt"
                ELSE "snippet.txt",
   language |-> IF request.language.present THEN "Kotlin"
                ELSE IF request.filename.present THEN "python"
                ELSE "plaintext"]

\* C30: when a review request carries both inline code and a files list, the
\* inline code is reviewed as one more file after the uploaded ones, fileCount
\* is the number of uploaded files plus one, and the filename, language and
\* lineCount echoed in the response are those of the inline file; with files
\* only they are those of the first file.
C30_InlineCodeIsPrimaryFile ==
  ReviewSucceeded /\ request.files.present =>
    LET uploaded == request.files.value
        echo == response.data.input
    IN IF request.code.present
       THEN /\ Len(ReviewedFiles) = Len(uploaded) + 1
            /\ \A k \in 1..Len(uploaded) :
                 ReviewedFiles[k].code = stringTrim(uploaded[k].code)
            /\ ReviewedFiles[Len(uploaded) + 1] =
                 [filename |-> InlineEcho.filename,
                  language |-> InlineEcho.language,
                  code |-> stringTrim(request.code.value)]
            /\ echo.fileCount = Len(uploaded) + 1
            /\ echo.filename = InlineEcho.filename
            /\ echo.language = InlineEcho.language
            /\ echo.lineCount = Segments(stringTrim(request.code.value))
       ELSE /\ Len(ReviewedFiles) = Len(uploaded)
            /\ echo.fileCount = Len(uploaded)
            /\ echo.filename = ReviewedFiles[1].filename
            /\ echo.language = ReviewedFiles[1].language
            /\ echo.lineCount = Segments(stringTrim(uploaded[1].code))

\* A successful review of two uploaded files and inline code of two lines
\* sent with no filename and the language Kotlin: snippet.kt is the third file
\* and the one echoed, the first file being a.ts of two lines.
C30_Witness ==
  /\ ReviewSucceeded
  /\ request.code.present
  /\ request.files.present
  /\ Len(request.files.value) = 2
  /\ ~request.filename.present
  /\ response.data.input.filename = "snippet.kt"
  /\ response.data.input.lineCount = 2
  /\ response.data.input.fileCount = 3
  /\ ReviewedFiles[1].filename = "a.ts"
  /\ safeLineCount(ReviewedFiles[1].code) = 2

\* PUT /api/threads was called and has answered
SyncAnswered ==
  fnName = "PUT /api/threads" /\ fnOutput # NotCalled

\* the runs of the body, by the place of the thread and of the run in it
SentRunPlaces ==
  {<<k, n>> : k \in 1..Len(fnInput.threads), n \in 1..MaxRunRows} \cap
  UNION {{<<k, n>> : n \in 1..Len(fnInput.threads[k].runs)} :
           k \in 1..Len(fnInput.threads)}

\* the id of a thread or of a run as the schema hands it on
SentId(text) ==
  textString(Trim(text))

\* two threads of the body, or two of its runs, go by one id
SentIdsCollide ==
  \/ \E i, j \in 1..Len(fnInput.threads) :
       i # j /\ SentId(fnInput.threads[i].id) = SentId(fnInput.threads[j].id)
  \/ \E p, q \in SentRunPlaces :
       /\ p # q
       /\ SentId(fnInput.threads[p[1]].runs[p[2]].id) =
            SentId(fnInput.threads[q[1]].runs[q[2]].id)

\* C27: replaceStoredThreads is all-or-nothing: if inserting any thread or run
\* fails (for example two runs with the same id), the store holds exactly the
\* threads and runs it held before the call and the error is raised to the
\* caller; on success it holds exactly the given threads and runs and nothing
\* else.
C27_ReplaceIsAllOrNothing ==
  SyncAnswered /\ fnOutput.value.status # 400 =>
    LET after == fnOutput.value.db
    IN IF SentIdsCollide
       THEN /\ fnOutput.value.status = 500
            /\ fnOutput.value.error = "Thread sync failed"
            /\ after = fnInput.db
       ELSE /\ fnOutput.value.status = 200
            /\ Len(after.threads) = Len(fnInput.threads)
            /\ {after.threads[k].id : k \in 1..Len(after.threads)} =
                 {SentId(fnInput.threads[k].id) : k \in 1..Len(fnInput.threads)}
            /\ Len(after.runs) = Cardinality(SentRunPlaces)
            /\ {<<after.runs[k].thread_id, after.runs[k].id>> :
                  k \in 1..Len(after.runs)} =
                 {<<SentId(fnInput.threads[p[1]].id),
                    SentId(fnInput.threads[p[1]].runs[p[2]].id)>> :
                    p \in SentRunPlaces}

\* The store held threads t1, t2 and a run; a sync of a thread t1 with the
\* runs r1, r2 and of a thread " t1" failed at the third INSERT of four, was
\* answered by 500 and left the store as it was.
C27_Witness ==
  /\ SyncAnswered
  /\ fnOutput.value.status = 500
  /\ Len(fnInput.threads) = 2
  /\ fnInput.threads[2].id = <<" ", "t1">>
  /\ Len(fnInput.threads[1].runs) = 2
  /\ fnInput.threads[1].runs[1].id # fnInput.threads[1].runs[2].id
  /\ Len(fnOutput.value.db.threads) = 2
  /\ fnOutput.value.db.threads[2].id = "t2"
  /\ Len(fnOutput.value.db.runs) = 1

\* the threads the answer of PUT /api/threads lists
ReadBack ==
  {fnOutput.value.threads[k] : k \in 1..Len(fnOutput.value.threads)}

\* a thread that was read is the thread that was sent: its id, its title and
\* the ids of its runs are the texts sent, or (parsed) those texts trimmed, and
\* its update time is the time sent, or (parsed) the time of the write for 0
SameThread(read, sentThread, parsed) ==
  LET asText(text) == IF parsed THEN SentId(text) ELSE textString(text)
      asTime(time) == IF parsed /\ time = 0 THEN fnInput.now ELSE time
  IN
  /\ read.id = asText(sentThread.id)
  /\ read.title = asText(sentThread.title)
  /\ read.pinned = sentThread.pinned
  /\ read.updatedAt = asTime(sentThread.updatedAt)
  /\ Len(read.runs) = Len(sentThread.runs)
  /\ {read.runs[n] : n \in 1..Len(read.runs)} =
       {[id |-> asText(sentThread.runs[n].id),
         createdAt |-> sentThread.runs[n].createdAt,
         updatedAt |-> sentThread.runs[n].updatedAt] :
          n \in 1..Len(sentThread.runs)}
  /\ (\E n \in 1..Len(read.runs) : read.runs[n].id = sentThread.activeRunId)
       => read.activeRunId = sentThread.activeRunId

====
